---- MODULE Spec2Model ----
(***************************************************************************)
(* Read-through cache of drama metadata (trpc/routes/dramas/cache/route.ts) *)
(* modelled as a state machine.  The shared state is the relational store   *)
(* (series, temporadas, elenco, videos, imagens) and the upstream catalog;  *)
(* every awaited datastore call and every upstream attempt of a request is  *)
(* one step of that request.                                                *)
(***************************************************************************)
EXTENDS Integers, Sequences, FiniteSets, TLC

\* ---------------------------------------------------------------- bounds
MaxDbFaults == 1       \* datastore calls that may fail in one run
MaxUpsertFaults == 2   \* the same, in the runs of upsertSerieCache on its own
MaxHelperFaults == 1   \* the same, in the runs of one bulk helper on its own
MaxPathLen == 3        \* longest path drawn for normalizePath
MaxPathCalls == 2      \* times normalizePath is applied to its own result
MaxListFaults == 1     \* datastore calls that may fail in a run of the listings
MaxAllFaults == 1      \* the same, in the runs of all the procedures together

\* ------------------------------------------------------ program constants
maxRetries == 2
maxAgeDays == 7
baseTimeout == 8000
timeoutStep == 3000
backoffUnit == 1000
castCap == 20
videosCap == 10
imagesCap == 20
pageSize == 20
populateCap == 10
syncMaxAgeDays == 7
syncLimit == 50
retentionDays == 90

Pages == {1, 2}
Procs == {1, 2}
SeqProcs == {1}
TmdbIds == {7}
Languages == {"pt-BR", "en-US"}
defaultLanguage == "pt-BR"
Gens == {1, 2}

NULL == [t |-> "null", kind |-> "null"]
UNDEFINED == [t |-> "undefined"]
Str(s) == [t |-> "string", v |-> s]
Num(n) == [t |-> "number", v |-> n]

Min(a, b) == IF a < b THEN a ELSE b
slice(s, n) == SubSeq(s, 1, Min(Len(s), n))

RECURSIVE Filter(_, _)
\* Array.prototype.filter with the predicate given as the set of its members
Filter(s, keep) ==
  IF s = <<>> THEN <<>>
  ELSE IF Head(s) \in keep THEN <<Head(s)>> \o Filter(Tail(s), keep)
       ELSE Filter(Tail(s), keep)

SeqToSet(s) == {s[i] : i \in 1..Len(s)}

\* ------------------------------------------------------------ utilities
\* faulty variant of normalizePath: the slash is prepended to every string
normalizePath_prefix(p) ==
  IF p.t # "string" THEN NULL
  ELSE IF p.v = <<>> THEN NULL
  ELSE Str(<<"/">> \o p.v)

normalizePath(p) ==
  IF p.t # "string" THEN NULL
  ELSE IF p.v = <<>> THEN NULL
  ELSE IF Head(p.v) = "/" THEN p ELSE Str(<<"/">> \o p.v)

\* ------------------------------------------------- the upstream catalog
\* What the catalog answers for the title in each of its generations.
TvDetail(id, g) ==
  [id |-> id, name |-> g,
   seasons |-> << [season_number |-> 1, overview |-> "txt", episode_count |-> 8],
                  [season_number |-> 2, overview |-> "", episode_count |-> 0] >>]

Credits(g) ==
  [cast |-> IF g = 1 THEN << [id |-> "A"], [id |-> "B"], [id |-> "C"] >>
                     ELSE << [id |-> "A"], [id |-> "D"] >>]

Videos(g) ==
  [results |-> << [id |-> "v1", type |-> "Trailer"], [id |-> "v2", type |-> "Featurette"],
                  [id |-> "v3", type |-> "Teaser"] >>]

Images(g) ==
  IF g = 1 THEN [backdrops |-> <<>>, posters |-> <<>>, logos |-> <<>>]
  ELSE [backdrops |-> << [file_path |-> Str(<<"b">>)], [file_path |-> NULL] >>,
        posters |-> << [file_path |-> Str(<<"/", "p">>)] >>,
        logos |-> <<>>]

SeasonDetail(g, n) == [overview |-> "det", episodes |-> 6]

\* /tv/popular and /trending/tv/day
Popular(g) == [page |-> 1, results |-> << [id |-> 7, name |-> g], [id |-> 8, name |-> g] >>]
Trending(g) == [results |-> << [id |-> 8, name |-> g] >>]

\* /search/tv and /tv/{id}/watch/providers
Search(g) == [page |-> 1, results |-> << [id |-> 7, name |-> g] >>]

VARIABLES
  series,      \* Title table: set of rows; last_update is held as the age
               \* of the row in days (now - last_update)
  temporadas,  \* season rows, in insertion order
  elenco,      \* cast rows
  videos,      \* video rows
  imagens,     \* image rows
  tmdb,        \* generation of the data the upstream catalog holds
  faults,      \* datastore calls that may still fail in this run
  proc,        \* per request: position and locals of getDramaById
  hist         \* per request: what the request has done so far

vars == <<series, temporadas, elenco, videos, imagens, tmdb, faults, proc, hist>>
store == <<series, temporadas, elenco, videos, imagens>>


\* ------------------------------------------------------- request records
Endpoints ==
  {"tv", "credits", "videos", "images", "season", "popular", "trending", "search"}

IdleProc ==
  [pc |-> "idle", id |-> 0, forceRefresh |-> FALSE, language |-> defaultLanguage,
   serie |-> NULL, needsUpdate |-> FALSE, serieId |-> NULL,
   tmdbData |-> NULL, castData |-> NULL, videosData |-> NULL, imagesData |-> NULL,
   seasons |-> <<>>, seasonIdx |-> 0,
   retryCount |-> 0, result |-> NULL, caller |-> "getSerieWithCache",
   page |-> 0, toSave |-> <<>>]

\* What a request has done so far: fetchFromTMDb calls per endpoint, the
\* attempts and waits of the fetchFromTMDb call in progress (kept when the
\* request ends with its error), the call sites whose fetch was fulfilled or
\* rejected, its datastore calls, the tables whose helper write failed, and
\* what the store held for the title when the request arrived; whether the
\* upstream has answered any attempt of the request, and the attempts made on
\* each endpoint before its first answer; the call sites whose datastore call
\* failed.
NoPre == [exists |-> FALSE, age |-> 0, images |-> 0, cast |-> <<>>]

\* a bulk helper called on its own: its table, the payload it was given and
\* the rows the table held for the title when it was called
NoHelperCall == [table |-> "", payload |-> NULL, before |-> <<>>]

\* a listing request: its page and the cached rows of that page on arrival
NoListing == [page |-> 0, cached |-> <<>>]

NoHist ==
  [calls |-> [e \in Endpoints |-> 0], log |-> <<>>,
   fulfilled |-> {}, rejected |-> {},
   dbOps |-> 0, dbWrites |-> 0, dbFaults |-> 0, failedWrites |-> {}, pre |-> NoPre,
   helper |-> NoHelperCall, listing |-> NoListing,
   reached |-> FALSE, attempts |-> [e \in Endpoints |-> 0], faultSites |-> {}]

Goto(pr, pc) == [pr EXCEPT !.pc = pc, !.retryCount = 0]
\* the request has ended: only its inputs and its outcome remain
Done(pr, res) ==
  [IdleProc EXCEPT !.pc = "done", !.id = pr.id, !.forceRefresh = pr.forceRefresh,
                   !.language = pr.language, !.result = res, !.caller = pr.caller]
ErrorResult(msg) == [kind |-> "error", message |-> msg]
Fulfilled(v) == [status |-> "fulfilled", value |-> v]
Rejected(reason) == [status |-> "rejected", reason |-> reason]
Settled(res) == IF res.status = "fulfilled" THEN res ELSE [status |-> "rejected"]

\* ------------------------------------------- getDramaById, locale bypass
BypassSites == {"bp_tv", "bp_credits", "bp_videos", "bp_images"}
HealSites == {"heal_images"}
RefreshSites == {"rf_tv", "rf_credits", "rf_videos", "rf_images"}
SeasonSites == {"ss_detail"}
FallbackSites == {"fb_tv", "fb_credits", "fb_videos", "fb_images"}
ListingSites == {"pop_fetch", "tr_fetch"}
SyncSites == {"sy_fetch"}
SearchSites == {"se_fetch"}
FetchSites ==
  BypassSites \cup HealSites \cup RefreshSites \cup SeasonSites \cup FallbackSites
    \cup ListingSites \cup SyncSites \cup SearchSites

EndpointOf(site) ==
  CASE site \in {"bp_tv", "rf_tv", "fb_tv", "sy_fetch"} -> "tv"
    [] site = "se_fetch" -> "search"
    [] site \in {"bp_credits", "rf_credits", "fb_credits"} -> "credits"
    [] site \in {"bp_videos", "rf_videos", "fb_videos"} -> "videos"
    [] site \in {"bp_images", "rf_images", "fb_images", "heal_images"} -> "images"
    [] site = "pop_fetch" -> "popular"
    [] site = "tr_fetch" -> "trending"
    [] OTHER -> "season"

\* cast / videos of the responses built straight from upstream documents
directCast(castData) ==
  IF castData.status = "fulfilled" THEN slice(castData.value.cast, castCap) ELSE <<>>

directVideos(videosData) ==
  IF videosData.status = "fulfilled"
  THEN slice(Filter(videosData.value.results,
                    {v \in SeqToSet(videosData.value.results) : v.type \in {"Trailer", "Teaser"}}),
             videosCap)
  ELSE <<>>

NoImages == [backdrops |-> <<>>, posters |-> <<>>, logos |-> <<>>]

\* lines 624-666: the response of a non-pt-BR request
bypassResponse(pr, imagesData) ==
  [kind |-> "response",
   name |-> pr.tmdbData.name,
   cast |-> directCast(pr.castData),
   videos |-> directVideos(pr.videosData),
   images |-> IF imagesData.status = "fulfilled" THEN imagesData.value ELSE NoImages,
   seasons |-> pr.tmdbData.seasons,
   cache |-> [status |-> "tmdb-direct", serieId |-> NULL, last_update |-> NULL]]

bypassContinue(pr, res) ==
  CASE pr.pc = "bp_tv" ->
         IF res.status = "fulfilled"
         THEN [Goto(pr, "bp_credits") EXCEPT !.tmdbData = res.value]
         ELSE Done(pr, ErrorResult(res.reason))
    [] pr.pc = "bp_credits" -> [Goto(pr, "bp_videos") EXCEPT !.castData = Settled(res)]
    [] pr.pc = "bp_videos" -> [Goto(pr, "bp_images") EXCEPT !.videosData = Settled(res)]
    [] pr.pc = "bp_images" -> Done(pr, bypassResponse(pr, res))

\* ------------------------------------------------------ the cache store
RowsOf(table, serieId) == SelectSeq(table, LAMBDA r : r.serie_id = serieId)

\* faulty variant of RowsNotOf: the delete removes nothing
RowsNotOf_keep(table, serieId) == table

RowsNotOf(table, serieId) == SelectSeq(table, LAMBDA r : r.serie_id # serieId)

\* the select of getSerieFromCache: the Title row with its joined sub-entities
Joined(r) ==
  [id |-> r.id, tmdb_id |-> r.tmdb_id, nome |-> r.nome, last_update |-> r.last_update,
   temporadas |-> RowsOf(temporadas, r.id), elenco |-> RowsOf(elenco, r.id),
   videos |-> RowsOf(videos, r.id), imagens |-> RowsOf(imagens, r.id)]

\* .eq('tmdb_id', tmdbId).maybeSingle(): no row is null, one row is the row,
\* several rows is the PGRST116 error, which line 118 turns into null
selectSerie(tmdbId) ==
  LET rows == {r \in series : r.tmdb_id = tmdbId}
  IN IF Cardinality(rows) = 1 THEN Joined(CHOOSE r \in rows : TRUE) ELSE NULL

\* .select('id').eq('tmdb_id', tmdbId).maybeSingle()
selectSerieId(tmdbId) ==
  LET rows == {r \in series : r.tmdb_id = tmdbId}
  IN IF Cardinality(rows) = 1 THEN Num((CHOOSE r \in rows : TRUE).id) ELSE NULL

\* the id the datastore gives a new row: one that no row has (the first free)
NewId ==
  LET free == {n \in 1..(Cardinality(series) + 1) : \A r \in series : r.id # n}
  IN CHOOSE n \in free : \A m \in free : n <= m

\* faulty variant of upsertOnConflict: the conflict target is not honoured
\* and a row is inserted every time
upsertOnConflict_insert(serieData, lastUpdate) ==
  [rows |-> series \cup {[id |-> NewId, tmdb_id |-> serieData.id,
                           nome |-> serieData.name, last_update |-> lastUpdate]},
   id |-> NewId]

\* faulty variant of upsertOnConflict: the table is replaced by the one row
upsertOnConflict_replace(serieData, lastUpdate) ==
  [rows |-> {[id |-> NewId, tmdb_id |-> serieData.id,
              nome |-> serieData.name, last_update |-> lastUpdate]},
   id |-> NewId]

\* .upsert({...}, { onConflict: 'tmdb_id' }): update the row of that tmdb_id
\* or insert one
upsertOnConflict(serieData, lastUpdate) ==
  IF \E r \in series : r.tmdb_id = serieData.id
  THEN [rows |-> {IF r.tmdb_id = serieData.id
                  THEN [r EXCEPT !.nome = serieData.name, !.last_update = lastUpdate]
                  ELSE r : r \in series},
        id |-> (CHOOSE r \in series : r.tmdb_id = serieData.id).id]
  ELSE [rows |-> series \cup {[id |-> NewId, tmdb_id |-> serieData.id,
                               nome |-> serieData.name, last_update |-> lastUpdate]},
        id |-> NewId]

\* the server-side function upsert_serie_cache: upsert keyed on tmdb_id
upsert_serie_cache(serieData) == upsertOnConflict(serieData, 0)

\* the server-side function serie_needs_update: the answers it may give for
\* the age of the row (the boundary day itself is left open)
serie_needs_update(tmdbId, p_max_age_days) ==
  LET rows == {r \in series : r.tmdb_id = tmdbId}
  IN IF rows = {} THEN {TRUE}
     ELSE LET age == (CHOOSE r \in rows : TRUE).last_update
          IN IF age > p_max_age_days THEN {TRUE}
             ELSE IF age < p_max_age_days THEN {FALSE} ELSE BOOLEAN

Pre(serie) ==
  IF serie = NULL THEN NoPre
  ELSE [exists |-> TRUE, age |-> serie.last_update, images |-> Len(serie.imagens),
        cast |-> [i \in 1..Len(serie.elenco) |-> serie.elenco[i].tmdb_person_id]]

\* ------------------------------------------------- rows the helpers insert
castToInsert(serieId, castData) ==
  LET c == slice(castData.cast, castCap)
  IN [i \in 1..Len(c) |-> [serie_id |-> serieId, tmdb_person_id |-> c[i].id, ordem |-> i - 1]]

isTrailerOrTeaser(v) == v.type \in {"Trailer", "Teaser"}

videosToInsert(serieId, videosData) ==
  LET f == slice(SelectSeq(videosData.results, isTrailerOrTeaser), videosCap)
  IN [i \in 1..Len(f) |-> [serie_id |-> serieId, tmdb_video_id |-> f[i].id, tipo |-> f[i].type]]

mapItem(serieId, item, tipo) ==
  [serie_id |-> serieId, caminho |-> normalizePath(item.file_path), tipo |-> tipo]

imageRows(serieId, imagesData) ==
  LET b == slice(imagesData.backdrops, imagesCap)
      p == slice(imagesData.posters, imagesCap)
      l == slice(imagesData.logos, imagesCap)
      all == [i \in 1..Len(b) |-> mapItem(serieId, b[i], "backdrop")] \o
             [i \in 1..Len(p) |-> mapItem(serieId, p[i], "poster")] \o
             [i \in 1..Len(l) |-> mapItem(serieId, l[i], "logo")]
  IN SelectSeq(all, LAMBDA r : r.caminho # NULL)

\* the guards that make a helper return before its delete: the payload is
\* missing, or its list is empty
imagesEmpty(imagesData) ==
  \/ imagesData = NULL
  \/ Len(imagesData.backdrops) = 0 /\ Len(imagesData.posters) = 0 /\ Len(imagesData.logos) = 0

castEmpty(castData) == castData = NULL \/ Len(castData.cast) = 0
videosEmpty(videosData) == videosData = NULL \/ Len(videosData.results) = 0
seasonsEmpty(seasons) == Len(seasons) = 0

\* typeof s.season_number === 'number': an item without the field has none
hasSeasonNumber(s) == "season_number" \in DOMAIN s

seasonRows(serieId, seasonsWithDetails) ==
  LET f == SelectSeq(seasonsWithDetails, hasSeasonNumber)
  IN [i \in 1..Len(f) |->
        [serie_id |-> serieId, numero |-> f[i].season_number,
         descricao |-> f[i].overview,
         total_episodios |-> f[i].episode_count]]

needsDetails(s) == ~(s.overview # "" /\ s.episode_count >= 0)

\* ---------------------------------------------- getDramaById, cached path
\* lines 686-757: the response built from a cached row
cachedResponse(serie, status, serieId) ==
  LET ofType(t) == SelectSeq(serie.imagens, LAMBDA img : img.tipo = t)
      mapImg(l) == [i \in 1..Len(l) |-> [file_path |-> normalizePath(l[i].caminho)]]
  IN [kind |-> "response",
      name |-> serie.nome,
      cast |-> [i \in 1..Len(serie.elenco) |-> [id |-> serie.elenco[i].tmdb_person_id]],
      videos |-> [i \in 1..Len(serie.videos) |->
                    [id |-> serie.videos[i].tmdb_video_id, type |-> serie.videos[i].tipo]],
      images |-> [backdrops |-> mapImg(ofType("backdrop")),
                  posters |-> mapImg(ofType("poster")),
                  logos |-> mapImg(ofType("logo"))],
      seasons |-> [i \in 1..Len(serie.temporadas) |->
                     [season_number |-> serie.temporadas[i].numero,
                      overview |-> serie.temporadas[i].descricao,
                      episode_count |-> serie.temporadas[i].total_episodios]],
      cache |-> [status |-> status, serieId |-> serieId, last_update |-> Num(serie.last_update)]]

\* lines 787-848: the response of the live fallback (it has no _cache block)
fallbackResponse(pr, imagesData) ==
  LET mapImg(l) == [i \in 1..Len(l) |-> [file_path |-> normalizePath(l[i].file_path)]]
      v == IF imagesData.status = "fulfilled" THEN imagesData.value ELSE NoImages
  IN [kind |-> "response",
      name |-> pr.tmdbData.name,
      cast |-> directCast(pr.castData),
      videos |-> directVideos(pr.videosData),
      images |-> [backdrops |-> mapImg(v.backdrops),
                  posters |-> mapImg(v.posters),
                  logos |-> mapImg(v.logos)],
      seasons |-> pr.tmdbData.seasons,
      cache |-> UNDEFINED]

\* line 679-683 and the catch of line 758: what getDramaById does with the
\* outcome of getSerieWithCache
cacheThrows(pr) ==
  [IdleProc EXCEPT !.pc = "fb_tv", !.id = pr.id, !.forceRefresh = pr.forceRefresh,
                   !.language = pr.language]

cacheReturns(pr, serie, status, serieId) ==
  IF serie = NULL THEN cacheThrows(pr)
  ELSE Done(pr, cachedResponse(serie, status, serieId))

\* lines 508-512: the cached row is returned as it was read
returnCacheHit(pr) == cacheReturns(pr, pr.serie, "cache-hit", Num(pr.serie.id))

\* faulty variant of catchRefresh: the refresh failure is always raised
catchRefresh_raise(pr) ==
  [IdleProc EXCEPT !.pc = "fb_tv", !.id = pr.id, !.forceRefresh = pr.forceRefresh,
                   !.language = pr.language]

\* lines 591-603: the catch around the refresh
catchRefresh(pr) ==
  IF pr.serie # NULL
  THEN cacheReturns(pr, pr.serie, "cache-after-error", Num(pr.serie.id))
  ELSE cacheThrows(pr)

\* line 588
refreshStatus(serie, forceRefresh) ==
  IF serie # NULL /\ ~forceRefresh THEN "stale-refreshed" ELSE "miss-saved"

\* the synchronous head of each helper decides where the refresh suspends next
enterImages(pr) ==
  IF pr.imagesData.status = "fulfilled" /\ ~imagesEmpty(pr.imagesData.value)
  THEN Goto(pr, "im_delete") ELSE Goto(pr, "rf_reread")

enterVideos(pr) ==
  IF pr.videosData.status = "fulfilled" /\ ~videosEmpty(pr.videosData.value)
  THEN Goto(pr, "vi_delete") ELSE enterImages(pr)

enterCast(pr) ==
  IF pr.castData.status = "fulfilled" /\ ~castEmpty(pr.castData.value)
  THEN Goto(pr, "ca_delete") ELSE enterVideos(pr)

\* the next season, after index i, that lacks its overview or episode count
nextToEnrich(seasons, i) ==
  LET c == {j \in (i + 1)..Len(seasons) : needsDetails(seasons[j])}
  IN IF c = {} THEN 0 ELSE CHOOSE j \in c : \A k \in c : j <= k

enrichFrom(pr, i) ==
  IF nextToEnrich(pr.seasons, i) = 0 THEN Goto(pr, "ss_delete")
  ELSE [Goto(pr, "ss_detail") EXCEPT !.seasonIdx = nextToEnrich(pr.seasons, i)]

enterSeasons(pr) ==
  IF seasonsEmpty(pr.tmdbData.seasons) THEN enterCast(pr)
  ELSE enrichFrom([pr EXCEPT !.seasons = pr.tmdbData.seasons], 0)

\* faulty variant of healContinue: the images fetched are not stored
healContinue_skip(pr, res) ==
  IF res.status = "rejected" THEN returnCacheHit(pr)
  ELSE Goto([pr EXCEPT !.imagesData = res], "heal_reread")

\* faulty variant of healContinue: a failed images fetch sends the request to
\* the refresh
healContinue_refresh(pr, res) ==
  IF res.status = "rejected" THEN Goto(pr, "rf_tv")
  ELSE IF imagesEmpty(res.value) THEN Goto([pr EXCEPT !.imagesData = res], "heal_reread")
  ELSE Goto([pr EXCEPT !.imagesData = res], "heal_delete")

healContinue(pr, res) ==
  IF res.status = "rejected" THEN returnCacheHit(pr)
  ELSE IF imagesEmpty(res.value) THEN Goto([pr EXCEPT !.imagesData = res], "heal_reread")
  ELSE Goto([pr EXCEPT !.imagesData = res], "heal_delete")

\* faulty variant of refreshContinue: one rejected fetch fails the refresh
refreshContinue_all(pr, res) ==
  IF res.status = "rejected" THEN catchRefresh(pr)
  ELSE CASE pr.pc = "rf_tv" -> [Goto(pr, "us_rpc") EXCEPT !.tmdbData = res.value]
         [] pr.pc = "rf_credits" -> [Goto(pr, "rf_videos") EXCEPT !.castData = res]
         [] pr.pc = "rf_videos" -> [Goto(pr, "rf_images") EXCEPT !.videosData = res]
         [] pr.pc = "rf_images" -> enterSeasons([pr EXCEPT !.imagesData = res])

refreshContinue(pr, res) ==
  CASE pr.pc = "rf_tv" ->
         IF res.status = "fulfilled"
         THEN [Goto(pr, "us_rpc") EXCEPT !.tmdbData = res.value]
         ELSE catchRefresh(pr)
    [] pr.pc = "rf_credits" -> [Goto(pr, "rf_videos") EXCEPT !.castData = Settled(res)]
    [] pr.pc = "rf_videos" -> [Goto(pr, "rf_images") EXCEPT !.videosData = Settled(res)]
    [] pr.pc = "rf_images" -> enterSeasons([pr EXCEPT !.imagesData = Settled(res)])

\* lines 368-382: the season detail merged into the season, or the season as
\* it was when the detail fetch failed
seasonContinue(pr, res) ==
  LET i == pr.seasonIdx
      merged == IF res.status = "fulfilled"
                THEN [pr.seasons EXCEPT ![i].overview = res.value.overview,
                                        ![i].episode_count = res.value.episodes]
                ELSE pr.seasons
  IN enrichFrom([pr EXCEPT !.seasons = merged], i)

\* faulty variant of fallbackContinue: a failed title-detail fetch of the live
\* fallback answers with an empty document instead of raising
fallbackContinue_empty(pr, res) ==
  CASE pr.pc = "fb_tv" ->
         IF res.status = "fulfilled"
         THEN [Goto(pr, "fb_credits") EXCEPT !.tmdbData = res.value]
         ELSE Done(pr, [kind |-> "response", cache |-> UNDEFINED])
    [] pr.pc = "fb_credits" -> [Goto(pr, "fb_videos") EXCEPT !.castData = Settled(res)]
    [] pr.pc = "fb_videos" -> [Goto(pr, "fb_images") EXCEPT !.videosData = Settled(res)]
    [] pr.pc = "fb_images" -> Done(pr, fallbackResponse(pr, res))

fallbackContinue(pr, res) ==
  CASE pr.pc = "fb_tv" ->
         IF res.status = "fulfilled"
         THEN [Goto(pr, "fb_credits") EXCEPT !.tmdbData = res.value]
         ELSE Done(pr, ErrorResult(res.reason))
    [] pr.pc = "fb_credits" -> [Goto(pr, "fb_videos") EXCEPT !.castData = Settled(res)]
    [] pr.pc = "fb_videos" -> [Goto(pr, "fb_images") EXCEPT !.videosData = Settled(res)]
    [] pr.pc = "fb_images" -> Done(pr, fallbackResponse(pr, res))

\* ---- listings (lines 894-1029)
\* .order('popularidade', { ascending: false }).range(...): the popularity of
\* a title is taken to grow with its upstream ID
RECURSIVE byPopularity(_)
byPopularity(rows) ==
  IF rows = {} THEN <<>>
  ELSE LET top == CHOOSE r \in rows : \A q \in rows : q.tmdb_id <= r.tmdb_id
       IN <<top>> \o byPopularity(rows \ {top})

cachedPage(page) ==
  LET all == byPopularity(series)
  IN SubSeq(all, (page - 1) * pageSize + 1, Min(page * pageSize, Len(all)))

\* lines 919-937
cachedListing(page, cachedSeries) ==
  [kind |-> "listing", source |-> "cache", page |-> page,
   results |-> [i \in 1..Len(cachedSeries) |->
                  [id |-> cachedSeries[i].tmdb_id, name |-> cachedSeries[i].nome]]]

\* lines 959-977 and 1008-1023
upstreamListing(data) ==
  [kind |-> "listing", source |-> "upstream", page |-> 0,
   results |-> [i \in 1..Len(data.results) |->
                  [id |-> data.results[i].id, name |-> data.results[i].name]]]

listingError(pr) ==
  ErrorResult(IF pr.caller = "getPopularDramas" THEN "Erro ao carregar doramas populares"
              ELSE "Erro ao carregar doramas em alta")

\* the background population: the next title to save, or none left
saveNext(pr) ==
  IF pr.toSave = <<>> THEN Done(pr, pr.result)
  ELSE [Goto(pr, "us_rpc") EXCEPT !.tmdbData = Head(pr.toSave), !.id = Head(pr.toSave).id,
                                  !.toSave = Tail(pr.toSave)]

listingContinue(pr, res) ==
  IF res.status = "rejected" THEN Done(pr, listingError(pr))
  ELSE saveNext([pr EXCEPT !.result = upstreamListing(res.value),
                           !.toSave = slice(res.value.results, populateCap)])

\* ---- syncSeriesCache and searchDramas (lines 1032-1062, 858-892)
\* the server-side function get_series_to_update: the rows older than the
\* given age, at most p_limit of them
get_series_to_update(p_max_age_days, p_limit) ==
  slice(byPopularity({r \in series : r.last_update > p_max_age_days}), p_limit)

\* the server-side function cleanup_old_cache_data: the titles older than
\* the given age are removed with their rows
cleanup_old_cache_data(p_max_age_days) ==
  LET old == {r \in series : r.last_update > p_max_age_days}
      kept(table) == SelectSeq(table, LAMBDA row : \A r \in old : row.serie_id # r.id)
  IN [series |-> series \ old, temporadas |-> kept(temporadas), elenco |-> kept(elenco),
      videos |-> kept(videos), imagens |-> kept(imagens), deleted |-> Cardinality(old)]

\* the loop of lines 1043-1051: the next outdated title, or the answer
syncNext(pr) ==
  IF pr.toSave = <<>> THEN Done(pr, pr.result)
  ELSE [Goto(pr, "sy_fetch") EXCEPT !.id = Head(pr.toSave).tmdb_id,
                                    !.toSave = Tail(pr.toSave)]

syncUpdated(pr) == [pr EXCEPT !.result.updated = @ + 1]

syncContinue(pr, res) ==
  IF res.status = "rejected" THEN syncNext(pr)
  ELSE [Goto(pr, "us_rpc") EXCEPT !.tmdbData = res.value]

searchContinue(pr, res) ==
  IF res.status = "rejected" THEN Done(pr, ErrorResult("Erro ao buscar doramas"))
  ELSE Done(pr, upstreamListing(res.value))

Continue(pr, res) ==
  CASE pr.pc \in BypassSites -> bypassContinue(pr, res)
    [] pr.pc \in SyncSites -> syncContinue(pr, res)
    [] pr.pc \in SearchSites -> searchContinue(pr, res)
    [] pr.pc \in ListingSites -> listingContinue(pr, res)
    [] pr.pc \in HealSites -> healContinue(pr, res)
    [] pr.pc \in RefreshSites -> refreshContinue(pr, res)
    [] pr.pc \in SeasonSites -> seasonContinue(pr, res)
    [] pr.pc \in FallbackSites -> fallbackContinue(pr, res)

\* ---------------------------------------------------------- fetchFromTMDb
Payload(pr, g) ==
  CASE EndpointOf(pr.pc) = "tv" -> TvDetail(pr.id, g)
    [] EndpointOf(pr.pc) = "credits" -> Credits(g)
    [] EndpointOf(pr.pc) = "videos" -> Videos(g)
    [] EndpointOf(pr.pc) = "images" -> Images(g)
    [] EndpointOf(pr.pc) = "popular" -> Popular(g)
    [] EndpointOf(pr.pc) = "trending" -> Trending(g)
    [] EndpointOf(pr.pc) = "search" -> Search(g)
    [] OTHER -> SeasonDetail(g, pr.seasonIdx)

\* language parameter of the call made at a site (lines 617-621 pass the
\* caller's language, every other call site leaves the default)
SiteLanguage(pr) == IF pr.pc \in BypassSites THEN pr.language ELSE defaultLanguage

\* language of one attempt: line 88 re-enters without the language argument
AttemptLanguage(pr) == IF pr.retryCount = 0 THEN SiteLanguage(pr) ELSE defaultLanguage

timeoutDuration(retryCount) == baseTimeout + retryCount * timeoutStep
retryDelay(retryCount) == backoffUnit * (retryCount + 1)

\* faulty variant of mayRetry: one retry too many
mayRetry_more(retryCount) == retryCount <= maxRetries

mayRetry(retryCount) == retryCount < maxRetries

\* the non-2xx statuses the catalog may answer with
StatusCodes == {"404", "500"}
Outcomes == {"ok", "abort"} \cup StatusCodes

\* line 74: the error of a non-2xx answer carries the status
upstreamError(code) == "TMDb API error: " \o code

\* faulty variant of retries: a non-2xx answer is retried like a timeout
retries_any(outcome, retryCount) == outcome # "ok" /\ mayRetry(retryCount)

\* lines 81-85: only an aborted attempt with retries left is retried
retries(outcome, retryCount) == outcome = "abort" /\ mayRetry(retryCount)

\* lines 74, 91 and 95: what the call raises when it does not retry
raised(outcome) == IF outcome = "abort" THEN "Request timeout" ELSE upstreamError(outcome)

\* one attempt of fetchFromTMDb: the request is sent and answered with a
\* document, answered with a non-2xx status, or aborted by the timer; after
\* an abort with retries left the call waits retryDelay and re-enters with
\* retryCount + 1 (lines 85-88)
fetchFromTMDb(p) ==
  LET pr == proc[p]
      e == EndpointOf(pr.pc)
      h1(outcome) == [hist[p] EXCEPT
               !.calls[e] = IF pr.retryCount = 0 THEN @ + 1 ELSE @,
               !.reached = @ \/ outcome # "abort",
               !.attempts = IF hist[p].reached \/ outcome # "abort"
                            THEN [x \in Endpoints |-> 0] ELSE [@ EXCEPT ![e] = @ + 1],
               !.log = (IF pr.retryCount = 0 THEN <<>> ELSE @) \o
                         << [ev |-> "attempt", endpoint |-> e,
                             language |-> AttemptLanguage(pr),
                             timeout |-> timeoutDuration(pr.retryCount),
                             outcome |-> outcome] >>]
      settle(outcome, res) ==
        /\ proc' = [proc EXCEPT ![p] = Continue(pr, res)]
        /\ hist' = [hist EXCEPT ![p] =
             [h1(outcome) EXCEPT
                !.log = IF Continue(pr, res).result.kind = "error" THEN @ ELSE <<>>,
                !.fulfilled = IF res.status = "fulfilled" THEN @ \cup {pr.pc} ELSE @,
                !.rejected = IF res.status = "rejected" THEN @ \cup {pr.pc} ELSE @]]
  IN /\ pr.pc \in FetchSites
     /\ \E outcome \in Outcomes :
          IF outcome = "ok" THEN settle(outcome, Fulfilled(Payload(pr, tmdb)))
          ELSE IF retries(outcome, pr.retryCount)
          THEN /\ proc' = [proc EXCEPT ![p].retryCount = @ + 1]
               /\ hist' = [hist EXCEPT ![p] =
                    [h1(outcome) EXCEPT !.log = @ \o
                       << [ev |-> "sleep", ms |-> retryDelay(pr.retryCount)] >>]]
          ELSE settle(outcome, Rejected(raised(outcome)))
     /\ UNCHANGED <<store, tmdb, faults>>

\* ------------------------------------------------------- datastore calls
\* A datastore call answers, reports an error in its result, or raises.
DbOutcomes(extra) ==
  IF faults > 0 THEN {"ok", "error", "throw"} \cup extra ELSE {"ok"}

Applied == {"ok", "nonumber", "noid"}

\* the delete and insert calls of the bulk helpers, and the table of each
DeleteSites == {"ss_delete", "ca_delete", "vi_delete", "im_delete", "heal_delete"}
InsertSites == {"ss_insert", "ca_insert", "vi_insert", "im_insert", "heal_insert"}

TableOf(pc) ==
  CASE pc \in {"ss_delete", "ss_insert"} -> "temporadas"
    [] pc \in {"ca_delete", "ca_insert"} -> "elenco"
    [] pc \in {"vi_delete", "vi_insert"} -> "videos"
    [] OTHER -> "imagens"

dbCall(p, out, isWrite) ==
  /\ hist' = [hist EXCEPT ![p].dbOps = @ + 1,
                          ![p].dbWrites = IF isWrite /\ out \in Applied THEN @ + 1 ELSE @,
                          ![p].dbFaults = IF out = "ok" THEN @ ELSE @ + 1,
                          ![p].faultSites = IF out \in {"error", "throw"}
                                            THEN @ \cup {proc[p].pc} ELSE @,
                          ![p].failedWrites =
                             IF out # "ok" /\ proc[p].pc \in DeleteSites \cup InsertSites
                             THEN @ \cup {TableOf(proc[p].pc)} ELSE @]
  /\ faults' = IF out = "ok" THEN faults ELSE faults - 1

ReadSites == {"gc_read", "heal_reread", "rf_reread"}

\* faulty variant of afterStalenessCheck: the answer of the staleness check is not
\* consulted and the cached row is always served
afterStalenessCheck_served(pr, needsUpdate) ==
  IF Len(pr.serie.imagens) = 0 THEN Goto(pr, "heal_images")
  ELSE Done(pr, cachedResponse(pr.serie, "cache-hit", Num(pr.serie.id)))

\* lines 488-513: what follows the staleness answer
afterStalenessCheck(pr, needsUpdate) ==
  LET hasImages == Len(pr.serie.imagens) > 0
      pr1 == [pr EXCEPT !.needsUpdate = needsUpdate]
  IN IF ~needsUpdate /\ ~hasImages THEN Goto(pr1, "heal_images")
     ELSE IF ~needsUpdate THEN returnCacheHit(pr1)
     ELSE Goto(pr1, "rf_tv")

\* the three places getSerieWithCache reads the row (lines 484, 499, 585)
afterRead(pr, thrown, data) ==
  CASE pr.pc = "gc_read" ->
         IF thrown THEN cacheThrows(pr)
         ELSE IF data # NULL THEN Goto([pr EXCEPT !.serie = data], "gc_needs")
         ELSE Goto(pr, "rf_tv")
    [] pr.pc = "heal_reread" ->
         IF thrown \/ data = NULL THEN returnCacheHit(pr)
         ELSE cacheReturns(pr, data, "cache-hit", Num(data.id))
    [] pr.pc = "rf_reread" ->
         IF thrown THEN catchRefresh(pr)
         ELSE cacheReturns([pr EXCEPT !.serie = data], data,
                           refreshStatus(data, pr.forceRefresh), pr.serieId)

getSerieFromCache(p) ==
  LET pr == proc[p]
  IN /\ pr.pc \in ReadSites
     /\ \E out \in DbOutcomes({"pgrst116"}) :
          /\ proc' = [proc EXCEPT ![p] =
               afterRead(pr, out \in {"error", "throw"},
                         IF out = "ok" THEN selectSerie(pr.id) ELSE NULL)]
          /\ dbCall(p, out, FALSE)
     /\ UNCHANGED <<store, tmdb>>

\* faulty variant of reportedStale: a failed check reports the row as fresh
reportedStale_closed(out, data) == IF out = "ok" THEN data ELSE FALSE

\* lines 147-155: an error result or an exception of the RPC reports the
\* title as stale
reportedStale(out, data) == IF out = "ok" THEN data ELSE TRUE

serieNeedsUpdate(p) ==
  LET pr == proc[p]
  IN /\ pr.pc = "gc_needs"
     /\ \E out \in DbOutcomes({}), data \in serie_needs_update(pr.id, maxAgeDays) :
          /\ proc' = [proc EXCEPT ![p] =
               afterStalenessCheck(pr, reportedStale(out, data))]
          /\ dbCall(p, out, FALSE)
     /\ UNCHANGED <<store, tmdb>>

\* upsertSerieCache has returned the row ID: to line 525 of getSerieWithCache,
\* or to whoever called the function on its own
ListingCallers == {"getPopularDramas", "getTrendingDramas"}

serieSaved(pr, id) ==
  IF pr.caller = "getSerieWithCache"
  THEN Goto([pr EXCEPT !.serieId = Num(id)], "rf_credits")
  ELSE IF pr.caller \in ListingCallers THEN saveNext(pr)
  ELSE IF pr.caller = "syncSeriesCache" THEN syncNext(syncUpdated(pr))
  ELSE Done(pr, Num(id))

\* upsertSerieCache has raised (lines 252, 274, 280)
upsertThrows(pr) ==
  IF pr.caller = "getSerieWithCache" THEN catchRefresh(pr)
  ELSE IF pr.caller \in ListingCallers THEN saveNext(pr)
  ELSE IF pr.caller = "syncSeriesCache" THEN syncNext(pr)
  ELSE Done(pr, ErrorResult("upsertSerieCache"))

\* lines 165-217: the RPC tier
upsertSerieCacheRpc(p) ==
  LET pr == proc[p]
      up == upsert_serie_cache(pr.tmdbData)
  IN /\ pr.pc = "us_rpc"
     /\ \E out \in DbOutcomes({"nonumber"}) :
          /\ series' = IF out \in {"ok", "nonumber"} THEN up.rows ELSE series
          /\ proc' = [proc EXCEPT ![p] =
               CASE out = "ok" -> serieSaved(pr, up.id)
                 [] out = "nonumber" -> Goto(pr, "us_rpc_lookup")
                 [] OTHER -> Goto(pr, "us_direct")]
          /\ dbCall(p, out, TRUE)
     /\ UNCHANGED <<temporadas, elenco, videos, imagens, tmdb>>

\* lines 222-259: the direct upsert tier, inside the catch of the RPC tier
upsertSerieCacheDirect(p) ==
  LET pr == proc[p]
      up == upsertOnConflict(pr.tmdbData, 0)
  IN /\ pr.pc = "us_direct"
     /\ \E out \in DbOutcomes({"noid"}) :
          /\ series' = IF out \in {"ok", "noid"} THEN up.rows ELSE series
          /\ proc' = [proc EXCEPT ![p] =
               CASE out = "ok" -> serieSaved(pr, up.id)
                 [] out = "noid" -> Goto(pr, "us_last_lookup")
                 [] OTHER -> upsertThrows(pr)]
          /\ dbCall(p, out, TRUE)
     /\ UNCHANGED <<temporadas, elenco, videos, imagens, tmdb>>

\* lines 201-217 and 263-280: the lookups by tmdb_id
upsertSerieCacheLookup(p) ==
  LET pr == proc[p]
      failed == IF pr.pc = "us_rpc_lookup" THEN Goto(pr, "us_direct") ELSE upsertThrows(pr)
  IN /\ pr.pc \in {"us_rpc_lookup", "us_last_lookup"}
     /\ \E out \in DbOutcomes({}) :
          /\ proc' = [proc EXCEPT ![p] =
               IF out = "ok" /\ selectSerieId(pr.id) # NULL
               THEN serieSaved(pr, selectSerieId(pr.id).v)
               ELSE failed]
          /\ dbCall(p, out, FALSE)
     /\ UNCHANGED <<store, tmdb>>

\* ----------------------------------------------------------- bulk helpers
InsertSiteOf(pc) ==
  CASE pc = "ss_delete" -> "ss_insert"
    [] pc = "ca_delete" -> "ca_insert"
    [] pc = "vi_delete" -> "vi_insert"
    [] pc = "im_delete" -> "im_insert"
    [] pc = "heal_delete" -> "heal_insert"

\* the serieId argument: line 497 passes serie.id, the refresh passes serieId
helperSerieId(pr) ==
  IF pr.pc \in {"heal_delete", "heal_insert"} THEN pr.serie.id ELSE pr.serieId.v

rowsToInsert(pr) ==
  CASE TableOf(pr.pc) = "temporadas" -> seasonRows(helperSerieId(pr), pr.seasons)
    [] TableOf(pr.pc) = "elenco" -> castToInsert(helperSerieId(pr), pr.castData.value)
    [] TableOf(pr.pc) = "videos" -> videosToInsert(helperSerieId(pr), pr.videosData.value)
    [] OTHER -> imageRows(helperSerieId(pr), pr.imagesData.value)

\* the helper has returned to its caller
afterHelper(pr) ==
  CASE pr.caller = "helper" -> Done(pr, UNDEFINED)
    [] TableOf(pr.pc) = "temporadas" -> enterCast(pr)
    [] TableOf(pr.pc) = "elenco" -> enterVideos(pr)
    [] TableOf(pr.pc) = "videos" -> enterImages(pr)
    [] pr.pc \in {"im_delete", "im_insert"} -> Goto(pr, "rf_reread")
    [] OTHER -> Goto(pr, "heal_reread")

\* the helper has raised: lines 557 and 504 catch it, the other call sites
\* (lines 564, 571, 578) leave it to the catch of line 591
helperThrows(pr) ==
  CASE pr.caller = "helper" -> Done(pr, ErrorResult("datastore"))
    [] TableOf(pr.pc) = "temporadas" -> enterCast(pr)
    [] pr.pc \in {"heal_delete", "heal_insert"} -> returnCacheHit(pr)
    [] OTHER -> catchRefresh(pr)

afterDelete(pr) ==
  IF Len(rowsToInsert(pr)) = 0 THEN afterHelper(pr) ELSE Goto(pr, InsertSiteOf(pr.pc))

\* .from(table).delete().eq('serie_id', serieId): its result is not inspected
helperDelete(p) ==
  LET pr == proc[p]
      t == TableOf(pr.pc)
      sid == helperSerieId(pr)
  IN /\ pr.pc \in DeleteSites
     /\ \E out \in DbOutcomes({}) :
          /\ temporadas' = IF t = "temporadas" /\ out = "ok" THEN RowsNotOf(temporadas, sid) ELSE temporadas
          /\ elenco' = IF t = "elenco" /\ out = "ok" THEN RowsNotOf(elenco, sid) ELSE elenco
          /\ videos' = IF t = "videos" /\ out = "ok" THEN RowsNotOf(videos, sid) ELSE videos
          /\ imagens' = IF t = "imagens" /\ out = "ok" THEN RowsNotOf(imagens, sid) ELSE imagens
          /\ proc' = [proc EXCEPT ![p] = IF out = "throw" THEN helperThrows(pr) ELSE afterDelete(pr)]
          /\ dbCall(p, out, TRUE)
     /\ UNCHANGED <<series, tmdb>>

\* .from(table).insert(rows): an error result is logged
helperInsert(p) ==
  LET pr == proc[p]
      t == TableOf(pr.pc)
      rows == rowsToInsert(pr)
  IN /\ pr.pc \in InsertSites
     /\ \E out \in DbOutcomes({}) :
          /\ temporadas' = IF t = "temporadas" /\ out = "ok" THEN temporadas \o rows ELSE temporadas
          /\ elenco' = IF t = "elenco" /\ out = "ok" THEN elenco \o rows ELSE elenco
          /\ videos' = IF t = "videos" /\ out = "ok" THEN videos \o rows ELSE videos
          /\ imagens' = IF t = "imagens" /\ out = "ok" THEN imagens \o rows ELSE imagens
          /\ proc' = [proc EXCEPT ![p] = IF out = "throw" THEN helperThrows(pr) ELSE afterHelper(pr)]
          /\ dbCall(p, out, TRUE)
     /\ UNCHANGED <<series, tmdb>>

\* ------------------------------------------------------------ getDramaById
\* faulty variant of entry: the language is not consulted
entry_anyLanguage(forceRefresh, language) ==
  IF ~forceRefresh THEN "gc_read" ELSE "rf_tv"

\* faulty variant of entry: forceRefresh is not consulted
entry_cacheFirst(forceRefresh, language) ==
  IF language # "pt-BR" THEN "bp_tv" ELSE "gc_read"

\* line 614 and line 481: where a request first suspends
entry(forceRefresh, language) ==
  IF language # "pt-BR" THEN "bp_tv"
  ELSE IF ~forceRefresh THEN "gc_read" ELSE "rf_tv"

getDramaById(p) ==
  /\ proc[p].pc = "idle"
  /\ \E id \in TmdbIds, forceRefresh \in BOOLEAN, language \in Languages :
       proc' = [proc EXCEPT ![p] =
         [Goto(IdleProc, entry(forceRefresh, language))
            EXCEPT !.id = id, !.forceRefresh = forceRefresh, !.language = language]]
  /\ hist' = [hist EXCEPT ![p] =
       [NoHist EXCEPT !.pre = Pre(selectSerie(proc'[p].id))]]
  /\ UNCHANGED <<store, tmdb, faults>>

\* upsertSerieCache(supabase, serieData) called on its own with a title
\* document of the catalog (lines 160-163)
upsertSerieCache(p) ==
  /\ proc[p].pc = "idle"
  /\ \E id \in TmdbIds, g \in Gens :
       proc' = [proc EXCEPT ![p] =
         [Goto(IdleProc, "us_rpc") EXCEPT !.id = id, !.caller = "upsertSerieCache",
                                         !.tmdbData = TvDetail(id, g)]]
  /\ hist' = [hist EXCEPT ![p] =
       [NoHist EXCEPT !.pre = Pre(selectSerie(proc'[p].id))]]
  /\ UNCHANGED <<store, tmdb, faults>>

\* getPopularDramas({page}) (lines 894-899)
getPopularDramas(p) ==
  /\ proc[p].pc = "idle"
  /\ \E page \in Pages :
       /\ proc' = [proc EXCEPT ![p] =
            [Goto(IdleProc, "pop_read") EXCEPT !.caller = "getPopularDramas", !.page = page]]
       /\ hist' = [hist EXCEPT ![p] =
            [NoHist EXCEPT !.listing = [page |-> page, cached |-> cachedPage(page)]]]
  /\ UNCHANGED <<store, tmdb, faults>>

\* lines 904-937: the cache read of getPopularDramas and what follows it
popularRead(p) ==
  LET pr == proc[p]
      cachedSeries == cachedPage(pr.page)
  IN /\ pr.pc = "pop_read"
     /\ \E out \in DbOutcomes({}) :
          /\ proc' = [proc EXCEPT ![p] =
               CASE out = "throw" -> Done(pr, listingError(pr))
                 [] out = "ok" /\ Len(cachedSeries) > 0 ->
                      Done(pr, cachedListing(pr.page, cachedSeries))
                 [] OTHER -> Goto(pr, "pop_fetch")]
          /\ dbCall(p, out, FALSE)
     /\ UNCHANGED <<store, tmdb>>

\* getTrendingDramas() (lines 985-991)
getTrendingDramas(p) ==
  /\ proc[p].pc = "idle"
  /\ proc' = [proc EXCEPT ![p] =
       [Goto(IdleProc, "tr_fetch") EXCEPT !.caller = "getTrendingDramas", !.page = 1]]
  /\ hist' = [hist EXCEPT ![p] =
       [NoHist EXCEPT !.listing = [page |-> 1, cached |-> cachedPage(1)]]]
  /\ UNCHANGED <<store, tmdb, faults>>

\* syncSeriesCache() (lines 1032-1036)
syncSeriesCache(p) ==
  /\ proc[p].pc = "idle"
  /\ proc' = [proc EXCEPT ![p] =
       [Goto(IdleProc, "sy_list") EXCEPT !.caller = "syncSeriesCache"]]
  /\ hist' = [hist EXCEPT ![p] = NoHist]
  /\ UNCHANGED <<store, tmdb, faults>>

\* lines 1036-1043: the list of outdated titles; an error result leaves the
\* list empty, an exception ends the procedure
syncList(p) ==
  LET pr == proc[p]
      answer == [kind |-> "sync", updated |-> 0]
  IN /\ pr.pc = "sy_list"
     /\ \E out \in DbOutcomes({}) :
          /\ proc' = [proc EXCEPT ![p] =
               CASE out = "throw" -> Done(pr, ErrorResult("Erro ao sincronizar cache"))
                 [] out = "ok" ->
                      syncNext([pr EXCEPT !.result = answer,
                                          !.toSave = get_series_to_update(syncMaxAgeDays, syncLimit)])
                 [] OTHER -> Done(pr, answer)]
          /\ dbCall(p, out, FALSE)
     /\ UNCHANGED <<store, tmdb>>

\* searchDramas({query, page}) (lines 858-864)
searchDramas(p) ==
  /\ proc[p].pc = "idle"
  /\ proc' = [proc EXCEPT ![p] =
       [Goto(IdleProc, "se_fetch") EXCEPT !.caller = "searchDramas"]]
  /\ hist' = [hist EXCEPT ![p] = NoHist]
  /\ UNCHANGED <<store, tmdb, faults>>

\* cleanupCache() (lines 1065-1081)
cleanupCache(p) ==
  LET pr == [IdleProc EXCEPT !.caller = "cleanupCache"]
      swept == cleanup_old_cache_data(retentionDays)
  IN /\ proc[p].pc = "idle"
     /\ \E out \in DbOutcomes({}) :
          /\ series' = IF out = "ok" THEN swept.series ELSE series
          /\ temporadas' = IF out = "ok" THEN swept.temporadas ELSE temporadas
          /\ elenco' = IF out = "ok" THEN swept.elenco ELSE elenco
          /\ videos' = IF out = "ok" THEN swept.videos ELSE videos
          /\ imagens' = IF out = "ok" THEN swept.imagens ELSE imagens
          /\ proc' = [proc EXCEPT ![p] =
               CASE out = "throw" -> Done(pr, ErrorResult("Erro ao limpar cache"))
                 [] out = "ok" -> Done(pr, [kind |-> "cleanup", deleted |-> Num(swept.deleted)])
                 [] OTHER -> Done(pr, [kind |-> "cleanup", deleted |-> UNDEFINED])]
          /\ dbCall(p, out, TRUE)
     /\ UNCHANGED tmdb

\* One bulk helper called on its own for the stored title, with a payload
\* upstream may answer: missing, an empty list, the catalog's, or a list whose
\* items cannot be stored (no Trailer or Teaser, no file_path, no
\* season_number).
HelperTables == {"temporadas", "elenco", "videos", "imagens"}

\* payloads longer than the caps
ManyCast == [cast |-> [i \in 1..(castCap + 1) |-> [id |-> ToString(i)]]]

ManyVideos ==
  [results |-> [i \in 1..(videosCap + 2) |->
                  [id |-> ToString(i), type |-> IF i = 2 THEN "Featurette" ELSE "Trailer"]]]

ManyImages ==
  [backdrops |-> [i \in 1..(imagesCap + 1) |-> [file_path |-> Str(<<"/", ToString(i)>>)]],
   posters |-> [i \in 1..(imagesCap + 1) |-> [file_path |-> Str(<<ToString(i)>>)]],
   logos |-> <<>>]

HelperPayloads(t) ==
  CASE t = "elenco" -> {NULL, [cast |-> <<>>], Credits(1), Credits(2), ManyCast}
    [] t = "videos" -> {NULL, [results |-> <<>>], Videos(1), ManyVideos,
                        [results |-> << [id |-> "v2", type |-> "Featurette"] >>]}
    [] t = "imagens" -> {NULL, NoImages, Images(2), ManyImages,
                         [backdrops |-> << [file_path |-> NULL] >>,
                          posters |-> <<>>, logos |-> <<>>]}
    [] OTHER -> {<<>>, TvDetail(7, 1).seasons,
                 << [overview |-> "txt", episode_count |-> 8] >>}

TableRows(t) ==
  CASE t = "elenco" -> elenco
    [] t = "videos" -> videos
    [] t = "imagens" -> imagens
    [] OTHER -> temporadas

callHelper(p) ==
  /\ proc[p].pc = "idle"
  /\ \E id \in TmdbIds, t \in HelperTables :
       /\ selectSerie(id) # NULL
       /\ \E payload \in HelperPayloads(t) :
            LET pr == [IdleProc EXCEPT !.id = id, !.caller = "helper",
                                       !.serieId = Num(selectSerie(id).id)]
            IN /\ proc' = [proc EXCEPT ![p] =
                    CASE t = "elenco" ->
                           IF castEmpty(payload) THEN Done(pr, UNDEFINED)
                           ELSE [Goto(pr, "ca_delete") EXCEPT !.castData = Fulfilled(payload)]
                      [] t = "videos" ->
                           IF videosEmpty(payload) THEN Done(pr, UNDEFINED)
                           ELSE [Goto(pr, "vi_delete") EXCEPT !.videosData = Fulfilled(payload)]
                      [] t = "imagens" ->
                           IF imagesEmpty(payload) THEN Done(pr, UNDEFINED)
                           ELSE [Goto(pr, "im_delete") EXCEPT !.imagesData = Fulfilled(payload)]
                      [] OTHER ->
                           IF seasonsEmpty(payload) THEN Done(pr, UNDEFINED)
                           ELSE enrichFrom([pr EXCEPT !.seasons = payload], 0)]
               /\ hist' = [hist EXCEPT ![p] =
                    [NoHist EXCEPT !.helper =
                       [table |-> t, payload |-> payload,
                        before |-> RowsOf(TableRows(t), selectSerie(id).id)]]]
  /\ UNCHANGED <<store, tmdb, faults>>

\* the caller has received the response or the error
Return(p) ==
  /\ proc[p].pc = "done"
  /\ proc' = [proc EXCEPT ![p] = IdleProc]
  /\ hist' = [hist EXCEPT ![p] = NoHist]
  /\ UNCHANGED <<store, tmdb, faults>>

\* ------------------------------------------------------------ environment
\* Requests last seconds, the clock counts days and the catalog changes
\* rarely: both move while no request is in flight.
Quiet == \A p \in Procs : proc[p].pc = "idle"

\* more than maxAgeDays pass; ages beyond the threshold are not told apart
Tick ==
  /\ Quiet
  /\ series # {}
  /\ series' = {[r EXCEPT !.last_update = maxAgeDays + 1] : r \in series}
  /\ UNCHANGED <<temporadas, elenco, videos, imagens, tmdb, faults, proc, hist>>

\* the catalog moves on to its next generation
UpstreamChange ==
  /\ Quiet
  /\ tmdb + 1 \in Gens
  /\ tmdb' = tmdb + 1
  /\ UNCHANGED <<store, faults, proc, hist>>

Init ==
  /\ series = {}
  /\ temporadas = <<>>
  /\ elenco = <<>>
  /\ videos = <<>>
  /\ imagens = <<>>
  /\ tmdb = 1
  /\ faults = MaxDbFaults
  /\ proc = [p \in Procs |-> IdleProc]
  /\ hist = [p \in Procs |-> NoHist]

Step(p) ==
  \/ getDramaById(p)
  \/ fetchFromTMDb(p)
  \/ getSerieFromCache(p)
  \/ serieNeedsUpdate(p)
  \/ upsertSerieCacheRpc(p)
  \/ upsertSerieCacheDirect(p)
  \/ upsertSerieCacheLookup(p)
  \/ helperDelete(p)
  \/ helperInsert(p)
  \/ Return(p)

Next ==
  \/ \E p \in SeqProcs : Step(p)
  \/ Tick
  \/ UpstreamChange

Spec == Init /\ [][Next]_vars

\* Every awaited datastore call and every upstream attempt completes or times
\* out, and the continuation of the request then runs: a request in flight is
\* not left waiting forever.
Advance(p) ==
  \/ fetchFromTMDb(p)
  \/ getSerieFromCache(p)
  \/ serieNeedsUpdate(p)
  \/ upsertSerieCacheRpc(p)
  \/ upsertSerieCacheDirect(p)
  \/ upsertSerieCacheLookup(p)
  \/ helperDelete(p)
  \/ helperInsert(p)

SpecLive == Init /\ [][Next]_vars /\ \A p \in SeqProcs : WF_vars(Advance(p))

\* Overlapping calls of upsertSerieCache: every caller may be anywhere in
\* the function while another one runs.
StepUpsert(p) ==
  \/ upsertSerieCache(p)
  \/ upsertSerieCacheRpc(p)
  \/ upsertSerieCacheDirect(p)
  \/ upsertSerieCacheLookup(p)
  \/ Return(p)

NextUpsert ==
  \/ \E p \in Procs : StepUpsert(p)
  \/ Tick

InitUpsert ==
  /\ series = {}
  /\ temporadas = <<>>
  /\ elenco = <<>>
  /\ videos = <<>>
  /\ imagens = <<>>
  /\ tmdb = 1
  /\ faults = MaxUpsertFaults
  /\ proc = [p \in Procs |-> IdleProc]
  /\ hist = [p \in Procs |-> NoHist]

SpecUpsert == InitUpsert /\ [][NextUpsert]_vars

\* The bulk helpers called one at a time for a title the store holds, whose
\* tables hold rows of an earlier refresh or none.
StepHelpers(p) ==
  \/ callHelper(p)
  \/ fetchFromTMDb(p)
  \/ helperDelete(p)
  \/ helperInsert(p)
  \/ Return(p)

NextHelpers == \E p \in SeqProcs : StepHelpers(p)

InitHelpers ==
  /\ series = {[id |-> 1, tmdb_id |-> 7, nome |-> 1, last_update |-> 0]}
  /\ temporadas \in {<<>>, seasonRows(1, TvDetail(7, 1).seasons)}
  /\ elenco \in {<<>>, castToInsert(1, Credits(1))}
  /\ videos \in {<<>>, videosToInsert(1, Videos(1))}
  /\ imagens \in {<<>>, imageRows(1, Images(2))}
  /\ tmdb = 1
  /\ faults = MaxHelperFaults
  /\ proc = [p \in Procs |-> IdleProc]
  /\ hist = [p \in Procs |-> NoHist]

SpecHelpers == InitHelpers /\ [][NextHelpers]_vars

\* The listings called one at a time, on a store that starts empty and is
\* filled by their background population.
StepListings(p) ==
  \/ getPopularDramas(p)
  \/ popularRead(p)
  \/ getTrendingDramas(p)
  \/ fetchFromTMDb(p)
  \/ upsertSerieCacheRpc(p)
  \/ upsertSerieCacheDirect(p)
  \/ upsertSerieCacheLookup(p)
  \/ Return(p)

NextListings ==
  \/ \E p \in SeqProcs : StepListings(p)
  \/ UpstreamChange

InitListings ==
  /\ series = {}
  /\ temporadas = <<>>
  /\ elenco = <<>>
  /\ videos = <<>>
  /\ imagens = <<>>
  /\ tmdb = 1
  /\ faults = MaxListFaults
  /\ proc = [p \in Procs |-> IdleProc]
  /\ hist = [p \in Procs |-> NoHist]

SpecListings == InitListings /\ [][NextListings]_vars

\* normalizePath on its own: applied to a value, then to its own result.
PathChars == {"/", "a", "."}
abcJpg == <<"a", "b", "c", ".", "j", "p", "g">>

PathInputs ==
  {Str(v) : v \in UNION {[1..k -> PathChars] : k \in 0..MaxPathLen}}
  \cup {Str(abcJpg), Str(<<"/">> \o abcJpg)}
  \cup {NULL, UNDEFINED, Num(0), Num(20), [t |-> "boolean", v |-> TRUE], [t |-> "object"]}

PathCall(input) ==
  [pc |-> "normalizePath", input |-> input, calls |-> 0,
   first |-> UNDEFINED, result |-> UNDEFINED]

applyNormalizePath(p) ==
  LET pr == proc[p]
      arg == IF pr.calls = 0 THEN pr.input ELSE pr.result
  IN /\ pr.pc = "normalizePath"
     /\ pr.calls < MaxPathCalls
     /\ proc' = [proc EXCEPT ![p] =
          [pr EXCEPT !.calls = @ + 1, !.result = normalizePath(arg),
                     !.first = IF pr.calls = 0 THEN normalizePath(arg) ELSE @]]
     /\ UNCHANGED <<store, tmdb, faults, hist>>

NextPath == \E p \in SeqProcs : applyNormalizePath(p)

InitPath ==
  /\ series = {}
  /\ temporadas = <<>>
  /\ elenco = <<>>
  /\ videos = <<>>
  /\ imagens = <<>>
  /\ tmdb = 1
  /\ faults = 0
  /\ \E input \in PathInputs :
       proc = [p \in Procs |-> IF p \in SeqProcs THEN PathCall(input) ELSE IdleProc]
  /\ hist = [p \in Procs |-> NoHist]

SpecPath == InitPath /\ [][NextPath]_vars

\* getDramaProviders on its own (lines 1084-1152).  The watch/providers
\* document lists, per country, the providers that stream, rent and sell the
\* title, and a link; a provider entry is tagged here with the country whose
\* list it stands in.
Countries == <<"BR", "US", "KR">>
ProviderIds == {1, 2}

Provider(n, country) == [provider_id |-> n, country |-> country]

CountryProviders(c) ==
  {NULL} \cup
  { [flatrate |-> [i \in 1..Len(f) |-> Provider(f[i], c)],
     rent |-> [i \in 1..Len(r) |-> Provider(r[i], c)],
     buy |-> [i \in 1..Len(b) |-> Provider(b[i], c)],
     link |-> l] :
      f \in {<<>>, <<1>>, <<1, 2>>, <<2, 1>>}, r \in {<<>>, <<1>>},
      b \in {<<>>, <<2>>}, l \in {NULL, Str(<<c>>)} }

\* a || b
orElse(a, b) == IF a \in {NULL, UNDEFINED, Str(<<>>)} THEN b ELSE a

\* data.results?.[country]?.link
linkOf(results, country) == IF results[country] = NULL THEN UNDEFINED ELSE results[country].link

\* one of the three loops over a country's list: entries whose provider_id
\* was seen are skipped, the others are marked seen and pushed
RECURSIVE pushUnseen(_, _, _, _)
pushUnseen(list, i, seen, acc) ==
  IF i > Len(list) THEN [seen |-> seen, acc |-> acc]
  ELSE IF list[i].provider_id \in seen THEN pushUnseen(list, i + 1, seen, acc)
  ELSE pushUnseen(list, i + 1, seen \cup {list[i].provider_id}, Append(acc, list[i]))

mergeCountry(cp, m) ==
  LET f == pushUnseen(cp.flatrate, 1, m.seen, m.flatrate)
      r == pushUnseen(cp.rent, 1, f.seen, m.rent)
      b == pushUnseen(cp.buy, 1, r.seen, m.buy)
  IN [seen |-> b.seen, flatrate |-> f.acc, rent |-> r.acc, buy |-> b.acc]

\* ['BR', 'US', ...the other countries]
priorityCountries == Countries

RECURSIVE mergeFrom(_, _, _)
mergeFrom(results, k, m) ==
  IF k > Len(priorityCountries) THEN m
  ELSE IF results[priorityCountries[k]] = NULL THEN mergeFrom(results, k + 1, m)
  ELSE mergeFrom(results, k + 1, mergeCountry(results[priorityCountries[k]], m))

providersResponse(results) ==
  LET m == mergeFrom(results, 1, [seen |-> {}, flatrate |-> <<>>, rent |-> <<>>, buy |-> <<>>])
  IN [country |-> Str(<<"ALL">>), flatrate |-> m.flatrate, rent |-> m.rent, buy |-> m.buy,
      link |-> orElse(linkOf(results, "BR"), orElse(linkOf(results, "US"), NULL))]

noProviders ==
  [country |-> NULL, flatrate |-> <<>>, rent |-> <<>>, buy |-> <<>>, link |-> NULL]

getDramaProviders(p) ==
  LET pr == proc[p]
  IN /\ pr.pc = "getDramaProviders"
     /\ \E outcome \in Outcomes :
          proc' = [proc EXCEPT ![p] =
            [pr EXCEPT !.pc = "done",
                       !.result = IF outcome = "ok" THEN providersResponse(pr.data)
                                  ELSE noProviders]]
     /\ UNCHANGED <<store, tmdb, faults, hist>>

NextProviders == \E p \in SeqProcs : getDramaProviders(p)

InitProviders ==
  /\ series = {}
  /\ temporadas = <<>>
  /\ elenco = <<>>
  /\ videos = <<>>
  /\ imagens = <<>>
  /\ tmdb = 1
  /\ faults = 0
  /\ \E br \in CountryProviders("BR"), us \in CountryProviders("US"),
        kr \in CountryProviders("KR") :
       proc = [p \in Procs |->
                 IF p \in SeqProcs
                 THEN [pc |-> "getDramaProviders", id |-> 7, result |-> NULL,
                       data |-> [c \in {"BR", "US", "KR"} |->
                                   CASE c = "BR" -> br [] c = "US" -> us [] OTHER -> kr]]
                 ELSE IdleProc]
  /\ hist = [p \in Procs |-> NoHist]

SpecProviders == InitProviders /\ [][NextProviders]_vars

\* Every procedure of the router, called one at a time; the catalog does not
\* change, and time passes beyond the retention period.
Providers ==
  [c \in {"BR", "US", "KR"} |->
     CASE c = "BR" -> [flatrate |-> << Provider(1, "BR") >>, rent |-> <<>>, buy |-> <<>>,
                       link |-> Str(<<"BR">>)]
       [] c = "US" -> [flatrate |-> << Provider(1, "US"), Provider(2, "US") >>,
                       rent |-> <<>>, buy |-> <<>>, link |-> NULL]
       [] OTHER -> NULL]

\* getDramaProviders({id}) about to fetch the providers document
requestProviders(p) ==
  /\ proc[p].pc = "idle"
  /\ \E id \in TmdbIds :
       proc' = [proc EXCEPT ![p] =
         [pc |-> "getDramaProviders", id |-> id, result |-> NULL, data |-> Providers,
          caller |-> "getDramaProviders"]]
  /\ UNCHANGED <<store, tmdb, faults, hist>>

\* more than retentionDays pass
LongTick ==
  /\ Quiet
  /\ series # {}
  /\ series' = {[r EXCEPT !.last_update = retentionDays + 1] : r \in series}
  /\ UNCHANGED <<temporadas, elenco, videos, imagens, tmdb, faults, proc, hist>>

StepAll(p) ==
  \/ Step(p)
  \/ getPopularDramas(p)
  \/ popularRead(p)
  \/ getTrendingDramas(p)
  \/ syncSeriesCache(p)
  \/ syncList(p)
  \/ searchDramas(p)
  \/ requestProviders(p)
  \/ getDramaProviders(p)
  \/ cleanupCache(p)

NextAll ==
  \/ \E p \in SeqProcs : StepAll(p)
  \/ LongTick

InitAll ==
  /\ series = {}
  /\ temporadas = <<>>
  /\ elenco = <<>>
  /\ videos = <<>>
  /\ imagens = <<>>
  /\ tmdb = 1
  /\ faults = MaxAllFaults
  /\ proc = [p \in Procs |-> IdleProc]
  /\ hist = [p \in Procs |-> NoHist]

SpecAll == InitAll /\ [][NextAll]_vars

\* Two refreshes of one title whose bulk helpers overlap: each caller runs
\* one helper and may be anywhere in it while the other one runs; the
\* datastore answers every call.
StepRace(p) ==
  \/ callHelper(p)
  \/ fetchFromTMDb(p)
  \/ helperDelete(p)
  \/ helperInsert(p)

NextRace == \E p \in Procs : StepRace(p)

InitRace ==
  /\ series = {[id |-> 1, tmdb_id |-> 7, nome |-> 1, last_update |-> 0]}
  /\ temporadas = <<>>
  /\ elenco \in {<<>>, castToInsert(1, Credits(1))}
  /\ videos = <<>>
  /\ imagens = <<>>
  /\ tmdb = 1
  /\ faults = 0
  /\ proc = [p \in Procs |-> IdleProc]
  /\ hist = [p \in Procs |-> NoHist]

SpecRace == InitRace /\ [][NextRace]_vars

\* ==================================================================== claims
\* A finished request of the sequential specification, as the claims read it.
Finished(p) == proc[p].pc = "done"
Cached(p) == proc[p].language = "pt-BR"
Stale(p) == hist[p].pre.exists /\ hist[p].pre.age > maxAgeDays
Fresh(p) == hist[p].pre.exists /\ hist[p].pre.age < maxAgeDays
StoreHealthy(p) == hist[p].dbFaults = 0
RowNow(p) == selectSerie(proc[p].id)
PersonIds(cast) == [i \in 1..Len(cast) |-> cast[i].id]

\* C1 -- staleness gate.  A finished getDramaById(id, forceRefresh=false,
\* 'pt-BR') that found a cached row older than maxAgeDays has called the
\* title-detail endpoint; one that found a row younger than maxAgeDays, with
\* every datastore call answered, has not called it.
C1_StalenessGate ==
  \A p \in Procs :
    Finished(p) /\ Cached(p) /\ ~proc[p].forceRefresh =>
      /\ Stale(p) => hist[p].calls["tv"] >= 1
      /\ Fresh(p) /\ StoreHealthy(p) => hist[p].calls["tv"] = 0

C1_Witness ==
  \E p \in Procs :
    /\ Finished(p) /\ Cached(p) /\ ~proc[p].forceRefresh
    /\ Stale(p) /\ StoreHealthy(p)
    /\ hist[p].calls["tv"] = 1
    /\ proc[p].result.kind = "response"
    /\ proc[p].result.cache.status = "stale-refreshed"

\* C2 -- fallback on refresh failure.  A finished getDramaById(id, false,
\* 'pt-BR') that found a stale row and whose title-detail fetch of the
\* refresh was rejected returns, with every datastore call answered, the
\* response built from that row with status 'cache-after-error'; the row is
\* the one the store held on arrival, and the request wrote nothing.
C2_FallbackOnRefreshFailure ==
  \A p \in Procs :
    /\ Finished(p) /\ Cached(p) /\ ~proc[p].forceRefresh
    /\ Stale(p) /\ StoreHealthy(p)
    /\ "rf_tv" \in hist[p].rejected
    => /\ hist[p].dbWrites = 0
       /\ RowNow(p) # NULL
       /\ proc[p].result =
            cachedResponse(RowNow(p), "cache-after-error", Num(RowNow(p).id))
       /\ proc[p].result.cache.last_update = Num(hist[p].pre.age)
       /\ PersonIds(proc[p].result.cast) = hist[p].pre.cast

C2_Witness ==
  \E p \in Procs :
    /\ Finished(p) /\ Cached(p) /\ ~proc[p].forceRefresh
    /\ Stale(p) /\ StoreHealthy(p)
    /\ "rf_tv" \in hist[p].rejected
    /\ proc[p].result.kind = "response"
    /\ proc[p].result.cache.status = "cache-after-error"
    /\ Len(proc[p].result.cast) > 0

\* C3 -- the same fallback under forceRefresh=true.  A finished
\* getDramaById(id, true, 'pt-BR') that arrived while the store held a row
\* and whose title-detail fetch of the refresh was rejected returns the
\* response built from that row with status 'cache-after-error'.
C3_FallbackUnderForceRefresh ==
  \A p \in Procs :
    /\ Finished(p) /\ Cached(p) /\ proc[p].forceRefresh
    /\ hist[p].pre.exists /\ StoreHealthy(p)
    /\ "rf_tv" \in hist[p].rejected
    => /\ RowNow(p) # NULL
       /\ proc[p].result =
            cachedResponse(RowNow(p), "cache-after-error", Num(RowNow(p).id))

\* C4 -- terminal miss.  A finished getDramaById(id, 'pt-BR') that arrived
\* while the store held no row for id and none of whose upstream calls was
\* fulfilled has raised an error, and the store still holds no row for id.
C4_TerminalMiss ==
  \A p \in Procs :
    /\ Finished(p) /\ Cached(p)
    /\ ~hist[p].pre.exists
    /\ hist[p].fulfilled = {}
    => /\ proc[p].result.kind = "error"
       /\ ~\E r \in series : r.tmdb_id = proc[p].id

C4_Witness ==
  \E p \in Procs :
    /\ Finished(p) /\ Cached(p)
    /\ ~hist[p].pre.exists
    /\ hist[p].fulfilled = {}
    /\ {"rf_tv", "fb_tv"} \subseteq hist[p].rejected
    /\ proc[p].result.kind = "error"

\* C5 -- status label of a successful refresh.  A finished request whose
\* refresh fetched and saved the title, every datastore call answered, has
\* status 'stale-refreshed' exactly when the store held a row for the title
\* on arrival, and 'miss-saved' exactly when it held none.
C5_RefreshStatusLabel ==
  \A p \in Procs :
    /\ Finished(p) /\ Cached(p) /\ StoreHealthy(p)
    /\ "rf_tv" \in hist[p].fulfilled
    /\ proc[p].result.kind = "response"
    => /\ proc[p].result.cache.status \in {"stale-refreshed", "miss-saved"}
       /\ proc[p].result.cache.status = "stale-refreshed" <=> hist[p].pre.exists
       /\ proc[p].result.cache.status = "miss-saved" <=> ~hist[p].pre.exists

\* C6 -- image self-heal.  A finished getDramaById(id, false, 'pt-BR') that
\* found a fresh row without image rows, while the catalog holds an image
\* with a path, every datastore call answered, has called the images endpoint
\* once and the title-detail endpoint never, and returns status 'cache-hit';
\* when the images call was fulfilled the store holds the image rows and the
\* response carries at least one image.
UpstreamHasImages == Len(imageRows(0, Images(tmdb))) > 0
ImageCount(images) == Len(images.backdrops) + Len(images.posters) + Len(images.logos)

C6_ImageSelfHeal ==
  \A p \in Procs :
    /\ Finished(p) /\ Cached(p) /\ ~proc[p].forceRefresh
    /\ Fresh(p) /\ hist[p].pre.images = 0
    /\ StoreHealthy(p) /\ UpstreamHasImages
    => /\ hist[p].calls["images"] = 1
       /\ hist[p].calls["tv"] = 0
       /\ proc[p].result.kind = "response"
       /\ proc[p].result.cache.status = "cache-hit"
       /\ "heal_images" \in hist[p].fulfilled =>
            /\ RowNow(p).imagens = imageRows(RowNow(p).id, Images(tmdb))
            /\ ImageCount(proc[p].result.images) >= 1

C6_Witness ==
  \E p \in Procs :
    /\ Finished(p) /\ Cached(p) /\ ~proc[p].forceRefresh
    /\ Fresh(p) /\ hist[p].pre.images = 0
    /\ StoreHealthy(p) /\ UpstreamHasImages
    /\ "heal_images" \in hist[p].fulfilled
    /\ proc[p].result.cache.status = "cache-hit"
    /\ ImageCount(proc[p].result.images) >= 1
    /\ Len(RowNow(p).imagens) >= 1

\* C7 -- locale bypass.  A request whose language is not 'pt-BR' makes no
\* datastore call, and no step of it changes the store, whatever the
\* upstream answers.
Bypassing(p) == proc[p].pc # "idle" /\ proc[p].language # "pt-BR"

C7_LocaleBypass ==
  /\ [](\A p \in Procs : Bypassing(p) => hist[p].dbOps = 0 /\ hist[p].dbWrites = 0)
  /\ [][\A p \in Procs : Bypassing(p) /\ proc'[p] # proc[p] => store' = store]_vars

C7_Witness ==
  \E p \in Procs :
    /\ Finished(p) /\ proc[p].language # "pt-BR"
    /\ proc[p].result.kind = "response"
    /\ proc[p].result.cache.status = "tmdb-direct"
    /\ hist[p].calls["tv"] = 1
    /\ series # {}

\* C8 -- set-replace.  After a finished refresh whose credits call was
\* fulfilled, every datastore call answered, the cast rows of the title are
\* exactly the rows of the catalog's current cast; when the catalog's cast
\* went from [A,B,C] to [A,D] the rows are those of A and D only.
PersonsOf(rows) == [i \in 1..Len(rows) |-> rows[i].tmdb_person_id]

C8_SetReplace ==
  \A p \in Procs :
    /\ Finished(p) /\ Cached(p) /\ StoreHealthy(p)
    /\ "rf_credits" \in hist[p].fulfilled
    => /\ RowNow(p) # NULL
       /\ RowNow(p).elenco = castToInsert(RowNow(p).id, Credits(tmdb))
       /\ RowsOf(elenco, RowNow(p).id) = RowNow(p).elenco
       /\ tmdb = 2 => PersonsOf(RowNow(p).elenco) = <<"A", "D">>

C8_Witness ==
  \E p \in Procs :
    /\ Finished(p) /\ Cached(p) /\ StoreHealthy(p)
    /\ "rf_credits" \in hist[p].fulfilled
    /\ hist[p].pre.cast = <<"A", "B", "C">>
    /\ PersonsOf(RowNow(p).elenco) = <<"A", "D">>

\* C9 -- idempotent Title upsert.  Under overlapping calls of
\* upsertSerieCache, through the RPC or the direct upsert, the store never
\* holds two Title rows of one upstream ID; and a step of a call whose
\* document equals what the row of its ID already holds leaves that single
\* row with every column but last_update as it was.
TitlesOf(rows, tmdbId) == {r \in rows : r.tmdb_id = tmdbId}
SameButLastUpdate(r1, r2) == [r1 EXCEPT !.last_update = 0] = [r2 EXCEPT !.last_update = 0]
Upserting(p) == proc[p].pc \in {"us_rpc", "us_direct"}

C9_IdempotentUpsert ==
  /\ [](\A id \in TmdbIds : Cardinality(TitlesOf(series, id)) <= 1)
  /\ [][\A p \in Procs : \A r \in series :
          /\ Upserting(p) /\ proc'[p] # proc[p]
          /\ r.tmdb_id = proc[p].tmdbData.id /\ r.nome = proc[p].tmdbData.name
          => /\ Cardinality(series') = Cardinality(series)
             /\ \E r2 \in series' : SameButLastUpdate(r, r2)]_vars

\* two calls that both began before any row existed, one of them through
\* the direct upsert, have both returned the ID of the single row
C9_Witness ==
  /\ \A p \in Procs :
       /\ Finished(p) /\ proc[p].caller = "upsertSerieCache"
       /\ ~hist[p].pre.exists
       /\ proc[p].result \in {Num(r.id) : r \in series}
  /\ \E p \in Procs : hist[p].dbFaults = 1 /\ hist[p].dbWrites = 1
  /\ Cardinality(series) = 1

\* C10 -- upstream retry bound.  One fetchFromTMDb call makes at most three
\* attempts, with timeouts of 8 s, 11 s and 14 s, waits 1 s before the second
\* and 2 s before the third; a call that has raised the timeout error has
\* made exactly the three attempts and the two waits, the last event being
\* the third attempt.
TimeoutSchedule ==
  << [ev |-> "attempt", timeout |-> 8000], [ev |-> "sleep", ms |-> 1000],
     [ev |-> "attempt", timeout |-> 11000], [ev |-> "sleep", ms |-> 2000],
     [ev |-> "attempt", timeout |-> 14000] >>

Shape(e) ==
  IF e.ev = "attempt" THEN [ev |-> "attempt", timeout |-> e.timeout]
  ELSE [ev |-> "sleep", ms |-> e.ms]

C10_RetryBound ==
  \A p \in Procs :
    LET log == hist[p].log
    IN /\ Len(log) <= Len(TimeoutSchedule)
       /\ \A i \in 1..Len(log) : Shape(log[i]) = TimeoutSchedule[i]
       /\ \A i \in 1..Len(log) :
            log[i].ev = "attempt" => log[i].endpoint = log[1].endpoint
       /\ proc[p].pc \in FetchSites => Len(log) = 2 * proc[p].retryCount
       /\ Finished(p) /\ proc[p].result = ErrorResult("Request timeout") =>
            Len(log) = Len(TimeoutSchedule)

C10_Witness ==
  \E p \in Procs :
    /\ Finished(p)
    /\ proc[p].result = ErrorResult("Request timeout")
    /\ Len(hist[p].log) = 5
    /\ hist[p].log[5].timeout = 14000

\* C11 -- a retry repeats the same request.  Every attempt of one
\* fetchFromTMDb call goes to the endpoint and carries the language of the
\* first attempt, and every attempt made for a non-'pt-BR' getDramaById
\* carries the caller's language.
C11_RetrySameRequest ==
  \A p \in Procs :
    \A i \in 1..Len(hist[p].log) :
      hist[p].log[i].ev = "attempt" =>
        /\ hist[p].log[i].endpoint = hist[p].log[1].endpoint
        /\ hist[p].log[i].language = hist[p].log[1].language
        /\ Bypassing(p) => hist[p].log[i].language = proc[p].language

\* C12 -- a non-2xx answer is never retried.  An attempt answered with a
\* non-2xx status is the last event of its fetchFromTMDb call, and the call
\* has raised the upstream error carrying that status.
C12_NoRetryOnStatus ==
  \A p \in Procs :
    \A i \in 1..Len(hist[p].log) :
      hist[p].log[i].ev = "attempt" /\ hist[p].log[i].outcome \in StatusCodes =>
        /\ i = Len(hist[p].log)
        /\ Finished(p)
        /\ proc[p].result = ErrorResult(upstreamError(hist[p].log[i].outcome))

C12_Witness ==
  \E p \in Procs :
    /\ Finished(p)
    /\ proc[p].result = ErrorResult("TMDb API error: 500")
    /\ Len(hist[p].log) = 3
    /\ hist[p].log[1].outcome = "abort"
    /\ hist[p].log[3].outcome = "500"

\* C13 -- three-tier Title write.  A finished upsertSerieCache call has
\* raised an error only after the RPC, the direct upsert and a plain lookup
\* were all tried and while the store holds no row a lookup could find;
\* otherwise it has returned the ID of the row of its upstream ID.
C13_ThreeTierWrite ==
  \A p \in Procs :
    Finished(p) /\ proc[p].caller = "upsertSerieCache" =>
      IF proc[p].result = ErrorResult("upsertSerieCache")
      THEN hist[p].dbOps >= 3 /\ RowNow(p) = NULL
      ELSE RowNow(p) # NULL /\ proc[p].result = Num(RowNow(p).id)

\* C14 -- independent sub-entity fetches.  In a refresh whose title-detail
\* fetch was fulfilled, every datastore call answered: the request ends with
\* the response built from the re-read row, never with an error; the rows of
\* every kind whose fetch was fulfilled are those of the catalog's document;
\* and once the fetch of a kind was rejected no step of the request changes
\* the rows of that kind.
Refreshed(p) ==
  Finished(p) /\ Cached(p) /\ StoreHealthy(p) /\ "rf_tv" \in hist[p].fulfilled

C14_IndependentFetches ==
  /\ [](\A p \in Procs : Refreshed(p) =>
          /\ RowNow(p) # NULL
          /\ proc[p].result.kind = "response"
          /\ proc[p].result.cache.status \in {"stale-refreshed", "miss-saved"}
          /\ proc[p].result = cachedResponse(RowNow(p), proc[p].result.cache.status,
                                             Num(RowNow(p).id))
          /\ "rf_credits" \in hist[p].fulfilled =>
               RowNow(p).elenco = castToInsert(RowNow(p).id, Credits(tmdb))
          /\ "rf_videos" \in hist[p].fulfilled =>
               RowNow(p).videos = videosToInsert(RowNow(p).id, Videos(tmdb))
          /\ "rf_images" \in hist[p].fulfilled /\ UpstreamHasImages =>
               RowNow(p).imagens = imageRows(RowNow(p).id, Images(tmdb)))
  /\ [][\A p \in Procs :
          /\ "rf_credits" \in hist[p].rejected => elenco' = elenco
          /\ "rf_videos" \in hist[p].rejected => videos' = videos
          /\ "rf_images" \in hist[p].rejected => imagens' = imagens]_vars

\* the credits and images fetches failed, the videos fetch did not: the
\* cast stays [A,B,C] although the catalog now answers [A,D], and the videos
\* are written
C14_Witness ==
  \E p \in Procs :
    /\ Refreshed(p)
    /\ {"rf_credits", "rf_images"} \subseteq hist[p].rejected
    /\ "rf_videos" \in hist[p].fulfilled
    /\ tmdb = 2
    /\ hist[p].pre.cast = <<"A", "B", "C">>
    /\ PersonsOf(RowNow(p).elenco) = <<"A", "B", "C">>
    /\ Len(RowNow(p).videos) = 2
    /\ proc[p].result.cache.status = "stale-refreshed"

\* ---- C15 ----
\* a refresh whose /tv/{id} fetch succeeded and whose only datastore failures
\* were writes of the bulk helpers (a delete or an insert, as an error result
\* or as a raised exception)
WriteFaultOnly(p) ==
  /\ Finished(p) /\ Cached(p) /\ "rf_tv" \in hist[p].fulfilled
  /\ hist[p].failedWrites # {}
  /\ hist[p].dbFaults = Cardinality(hist[p].failedWrites)

\* C15: when a write of a bulk helper (seasons, cast, videos, images) fails
\* during a refresh, as an error result or as a raised exception, the title
\* row stays saved, the helpers of the other tables still write what their
\* fetch returned, and the request answers the re-read row with the status
\* 'stale-refreshed' or 'miss-saved', never an error nor 'cache-after-error'.
C15_WriteIsolation ==
  \A p \in Procs : WriteFaultOnly(p) =>
    /\ RowNow(p) # NULL
    /\ \E st \in {"stale-refreshed", "miss-saved"} :
         proc[p].result = cachedResponse(RowNow(p), st, Num(RowNow(p).id))
    /\ "rf_credits" \in hist[p].fulfilled /\ "elenco" \notin hist[p].failedWrites =>
         RowNow(p).elenco = castToInsert(RowNow(p).id, Credits(tmdb))
    /\ "rf_videos" \in hist[p].fulfilled /\ "videos" \notin hist[p].failedWrites =>
         RowNow(p).videos = videosToInsert(RowNow(p).id, Videos(tmdb))
    /\ "rf_images" \in hist[p].fulfilled /\ UpstreamHasImages
          /\ "imagens" \notin hist[p].failedWrites =>
         RowNow(p).imagens = imageRows(RowNow(p).id, Images(tmdb))

\* ---- C16 ----
\* the payload is missing or its list is empty
EmptyPayload(t, payload) ==
  CASE t = "elenco" -> castEmpty(payload)
    [] t = "videos" -> videosEmpty(payload)
    [] t = "imagens" -> imagesEmpty(payload)
    [] OTHER -> seasonsEmpty(payload)

\* the items of the payload lack the field their row is keyed by
MalformedPayload(t, payload) ==
  CASE t = "imagens" -> ~imagesEmpty(payload) /\ Len(imageRows(1, payload)) = 0
    [] t = "temporadas" -> ~seasonsEmpty(payload) /\ Len(seasonRows(1, payload)) = 0
    [] OTHER -> FALSE

HelperReturned(p) == Finished(p) /\ proc[p].caller = "helper"

RowsKept(p) ==
  RowsOf(TableRows(hist[p].helper.table), RowNow(p).id) = hist[p].helper.before

\* C16: a bulk helper (cast, videos, images, seasons) called with an empty
\* or malformed upstream payload returns before its delete: the rows of its
\* table stored for the title are the same after the call as before it.
C16_EmptyPayloadKeepsRows ==
  \A p \in Procs :
    /\ HelperReturned(p)
    /\ \/ EmptyPayload(hist[p].helper.table, hist[p].helper.payload)
       \/ MalformedPayload(hist[p].helper.table, hist[p].helper.payload)
    => RowsKept(p)

\* the part of C16 that the guards of lines 286, 316, 357 and 433 do
\* establish: a missing payload or an empty list leaves the rows alone
EmptyListKeepsRows ==
  \A p \in Procs :
    HelperReturned(p) /\ EmptyPayload(hist[p].helper.table, hist[p].helper.payload)
      => RowsKept(p) /\ hist[p].dbOps = 0

\* ---- C17 ----
ImagesOfType(serieId, tipo) ==
  SelectSeq(RowsOf(imagens, serieId), LAMBDA r : r.tipo = tipo)

WithinCaps ==
  \A r \in series :
    /\ Len(RowsOf(elenco, r.id)) <= castCap
    /\ Len(RowsOf(videos, r.id)) <= videosCap
    /\ \A tipo \in {"backdrop", "poster", "logo"} :
         Len(ImagesOfType(r.id, tipo)) <= imagesCap

OnlyTrailersAndTeasers ==
  \A i \in 1..Len(videos) : videos[i].tipo \in {"Trailer", "Teaser"}

\* C17: whatever refreshes have run one after the other, and even when
\* single deletes or inserts of the datastore failed, a title has at most 20
\* image rows of each type, at most 20 cast rows and at most 10 video rows,
\* and every stored video row is a Trailer or a Teaser.
C17_SubEntityCaps == WithinCaps /\ OnlyTrailersAndTeasers

\* what the helpers do establish: the caps hold as long as no datastore call
\* has failed, and the type restriction holds always
CapsWhileStoreAnswers ==
  /\ faults = MaxHelperFaults => WithinCaps
  /\ OnlyTrailersAndTeasers

\* ---- C18 ----
PathCalled(p) == proc[p].pc = "normalizePath" /\ proc[p].calls >= 1

\* C18: normalizePath maps "abc.jpg" to "/abc.jpg", "/abc.jpg" to itself,
\* null and undefined to null; any value that is not a string, and the empty
\* string, give null; a non-empty string is returned as it is when it starts
\* with '/', and with one '/' put before it otherwise; applying normalizePath
\* to its own result gives that result again.
C18_NormalizePath ==
  \A p \in Procs : PathCalled(p) =>
    LET x == proc[p].input
        r == proc[p].first
    IN /\ x = Str(abcJpg) => r = Str(<<"/">> \o abcJpg)
       /\ x = Str(<<"/">> \o abcJpg) => r = x
       /\ x \in {NULL, UNDEFINED} => r = NULL
       /\ x.t # "string" => r = NULL
       /\ x = Str(<<>>) => r = NULL
       /\ x.t = "string" /\ x.v # <<>> =>
            /\ r.t = "string"
            /\ Head(x.v) = "/" => r = x
            /\ Head(x.v) # "/" => r.v = <<"/">> \o x.v
       /\ proc[p].calls >= 2 => proc[p].result = r

C18_Witness ==
  \E p \in Procs :
    /\ proc[p].pc = "normalizePath" /\ proc[p].calls = 2
    /\ proc[p].input = Str(abcJpg)
    /\ proc[p].first = Str(<<"/">> \o abcJpg)
    /\ proc[p].result = proc[p].first

\* ---- C19 ----
ProvidersMerged(p) == proc[p].pc = "done" /\ proc[p].result.country = Str(<<"ALL">>)

\* positions in priority order of the countries whose flatrate list names
\* provider n
FlatrateCountries(results, n) ==
  {k \in 1..Len(Countries) :
     /\ results[Countries[k]] # NULL
     /\ \E i \in 1..Len(results[Countries[k]].flatrate) :
          results[Countries[k]].flatrate[i].provider_id = n}

Occurrences(list, n) == Cardinality({i \in 1..Len(list) : list[i].provider_id = n})

FirstOf(ks) == CHOOSE k \in ks : \A j \in ks : k <= j

ExpectedLink(results) ==
  IF results["BR"] # NULL /\ results["BR"].link # NULL THEN results["BR"].link
  ELSE IF results["US"] # NULL /\ results["US"].link # NULL THEN results["US"].link
  ELSE NULL

\* C19: when the flatrate lists of two countries name the same provider ID,
\* the merged flatrate list of getDramaProviders holds that provider exactly
\* once, as the entry of the country that comes first in the order BR, US,
\* others; the link returned is BR's if BR has one, else US's, else null.
C19_ProviderMerge ==
  \A p \in Procs : ProvidersMerged(p) =>
    /\ \A n \in ProviderIds :
         LET ks == FlatrateCountries(proc[p].data, n)
         IN Cardinality(ks) >= 2 =>
              /\ Occurrences(proc[p].result.flatrate, n) = 1
              /\ Provider(n, Countries[FirstOf(ks)]) \in SeqToSet(proc[p].result.flatrate)
    /\ proc[p].result.link = ExpectedLink(proc[p].data)

\* what the merge does establish: no provider ID twice over the three merged
\* lists together, and the link rule
ProvidersAtMostOnce ==
  \A p \in Procs : ProvidersMerged(p) =>
    /\ \A n \in ProviderIds :
         Occurrences(proc[p].result.flatrate \o proc[p].result.rent \o proc[p].result.buy, n) <= 1
    /\ proc[p].result.link = ExpectedLink(proc[p].data)

\* ---- C20 ----
Listing(p) == proc[p].caller \in ListingCallers

\* the request is at its upstream call having read the cache and found no
\* row, or has answered the cached rows without any upstream call
CacheReadFirst(p) ==
  /\ proc[p].pc \in ListingSites =>
       /\ hist[p].dbOps >= 1
       /\ StoreHealthy(p) => hist[p].listing.cached = <<>>
  /\ Finished(p) /\ StoreHealthy(p) /\ hist[p].listing.cached # <<>> =>
       /\ hist[p].calls["popular"] = 0 /\ hist[p].calls["trending"] = 0
       /\ proc[p].result = cachedListing(hist[p].listing.page, hist[p].listing.cached)

\* C20: getPopularDramas and getTrendingDramas read the Title cache before
\* any upstream call, answer the cached rows without an upstream call when
\* the read yields at least one row, and call upstream only when it yields
\* none.
C20_CacheReadFirst == \A p \in Procs : Listing(p) => CacheReadFirst(p)

\* the same for getPopularDramas alone
PopularCacheReadFirst ==
  \A p \in Procs : proc[p].caller = "getPopularDramas" => CacheReadFirst(p)

\* ---- C21 ----
ResponseFields == {"kind", "name", "cast", "videos", "images", "seasons", "cache"}
CacheStatuses ==
  {"cache-hit", "stale-refreshed", "miss-saved", "cache-after-error", "tmdb-direct"}

\* C21: every getDramaById call ends with one error or with a response that
\* has the same top-level fields whichever path built it (cache hit, refresh,
\* stale fallback, live fallback, locale bypass), the _cache block among them,
\* whose status is one of cache-hit, stale-refreshed, miss-saved,
\* cache-after-error, tmdb-direct.
C21_ShapeConsistent ==
  \A p \in Procs : Finished(p) =>
    \/ proc[p].result.kind = "error"
    \/ /\ proc[p].result.kind = "response"
       /\ DOMAIN proc[p].result = ResponseFields
       /\ proc[p].result.cache # UNDEFINED
       /\ proc[p].result.cache.status \in CacheStatuses

\* what the code does establish: the response of the live fallback, and only
\* that one, has no _cache block; every other one has one of the five statuses
CacheBlockUnlessFallback ==
  \A p \in Procs : Finished(p) /\ proc[p].result.kind = "response" =>
    /\ DOMAIN proc[p].result = ResponseFields
    /\ proc[p].result.cache = UNDEFINED <=> "fb_tv" \in hist[p].fulfilled
    /\ proc[p].result.cache # UNDEFINED => proc[p].result.cache.status \in CacheStatuses

\* ---- C22 ----
TitleIds == {r.tmdb_id : r \in series}

Sweeping(p) == proc[p].pc = "idle" /\ proc'[p].pc = "done" /\ proc'[p].caller = "cleanupCache"

\* C22: no step of getDramaById, getPopularDramas, getTrendingDramas,
\* searchDramas, getDramaProviders or syncSeriesCache removes a Title row:
\* under them the set of upstream IDs that have a Title row only grows; only
\* cleanupCache removes Title rows.
C22_TitlesNeverDeleted ==
  [][(\E p \in Procs : Sweeping(p)) \/ TitleIds \subseteq TitleIds']_vars

\* syncSeriesCache has refreshed the two titles the store holds
C22_Witness ==
  \E p \in Procs :
    /\ proc[p].pc = "done" /\ proc[p].caller = "syncSeriesCache"
    /\ proc[p].result.kind = "sync" /\ proc[p].result.updated = 2
    /\ TitleIds = {7, 8}
    /\ \A r \in series : r.last_update = 0

\* ---- C23 ----
Forced(p) ==
  /\ proc[p].pc # "idle" /\ proc[p].caller = "getSerieWithCache"
  /\ proc[p].forceRefresh /\ proc[p].language = "pt-BR"

\* C23: getDramaById(id, forceRefresh = true, 'pt-BR') makes no cache read and
\* no staleness check before the upstream title-detail fetch and always issues
\* that fetch: until the first attempt on /tv/{id} the request has made no
\* datastore call and is about to fetch, whatever the store holds.
C23_ForceRefreshBypass ==
  \A p \in Procs : Forced(p) =>
    /\ hist[p].calls["tv"] = 0 => proc[p].pc = "rf_tv" /\ hist[p].dbOps = 0
    /\ Finished(p) => hist[p].calls["tv"] >= 1

\* a forced request that found a fresh row with images and refreshed it
C23_Witness ==
  \E p \in Procs :
    /\ Forced(p) /\ Finished(p)
    /\ hist[p].pre.exists /\ hist[p].pre.age = 0 /\ hist[p].pre.images > 0
    /\ hist[p].calls["tv"] = 1 /\ "rf_tv" \in hist[p].fulfilled
    /\ proc[p].result.kind = "response"
    /\ proc[p].result.cache # UNDEFINED
    /\ proc[p].result.cache.status = "miss-saved"

\* ---- C24 ----
\* a finished request that took the self-heal of lines 491-507
Healed(p) ==
  /\ Finished(p) /\ proc[p].caller = "getSerieWithCache"
  /\ Cached(p) /\ ~proc[p].forceRefresh
  /\ "heal_images" \in hist[p].fulfilled \cup hist[p].rejected

\* the row as the request read it: it had no image rows, and the self-heal
\* touches nothing but the image rows
OriginalRow(p) == [RowNow(p) EXCEPT !.imagens = <<>>]

\* the images fetch was rejected, the image write stored nothing, or the
\* re-read failed (a delete whose error result is ignored and whose insert
\* stores the images is a write that succeeded)
HealFailed(p) ==
  \/ "heal_images" \in hist[p].rejected
  \/ "imagens" \in hist[p].failedWrites /\ RowNow(p).imagens = <<>>
  \/ hist[p].dbFaults > (IF "imagens" \in hist[p].failedWrites THEN 1 ELSE 0)

\* C24: on a non-stale cache hit with zero images, when the images fetch, the
\* image write or the re-read fails, getDramaById returns the row it read
\* first with status 'cache-hit', raises no error and makes no title-detail
\* fetch.
C24_HealFailuresSwallowed ==
  \A p \in Procs : Healed(p) =>
    /\ proc[p].result.kind = "response"
    /\ proc[p].result.cache # UNDEFINED
    /\ proc[p].result.cache.status = "cache-hit"
    /\ hist[p].calls["tv"] = 0
    /\ HealFailed(p) =>
         proc[p].result = cachedResponse(OriginalRow(p), "cache-hit", Num(RowNow(p).id))

\* the images were stored and the re-read failed: the answer is the row
\* without images
C24_Witness ==
  \E p \in Procs :
    /\ Healed(p) /\ HealFailed(p)
    /\ "heal_images" \in hist[p].fulfilled
    /\ hist[p].failedWrites = {} /\ hist[p].dbFaults = 1
    /\ Len(RowNow(p).imagens) >= 1
    /\ proc[p].result.cache.status = "cache-hit"
    /\ ImageCount(proc[p].result.images) = 0

\* ---- C25 ----
\* what identifies a row within its table
Keys(t, rows) ==
  [i \in 1..Len(rows) |->
     CASE t = "elenco" -> rows[i].tmdb_person_id
       [] t = "videos" -> rows[i].tmdb_video_id
       [] t = "imagens" -> <<rows[i].tipo, rows[i].caminho>>
       [] OTHER -> rows[i].numero]

\* the rows a helper call builds from its payload
Generation(p) ==
  LET h == hist[p].helper
      sid == RowNow(p).id
  IN CASE h.table = "elenco" -> castToInsert(sid, h.payload)
       [] h.table = "videos" -> videosToInsert(sid, h.payload)
       [] h.table = "imagens" -> imageRows(sid, h.payload)
       [] OTHER -> seasonRows(sid, h.payload)

\* both callers have completed a helper of the same table that reached the
\* datastore
BothRefreshed(p, q) ==
  /\ p # q /\ HelperReturned(p) /\ HelperReturned(q)
  /\ hist[p].helper.table = hist[q].helper.table
  /\ hist[p].dbOps > 0 /\ hist[q].dbOps > 0

Persisted(p) ==
  Keys(hist[p].helper.table, RowsOf(TableRows(hist[p].helper.table), RowNow(p).id))

Written(p) == Keys(hist[p].helper.table, Generation(p))

\* C25: when two refreshes of one title overlap in any interleaving of their
\* datastore calls and both have completed, the persisted cast (likewise
\* videos, images, seasons) of the title is the set written by exactly one of
\* the two, never a mixture or a duplication of the two generations.
C25_OneGenerationPersisted ==
  \A p, q \in Procs :
    BothRefreshed(p, q) => Persisted(p) \in {Written(p), Written(q)}

\* what the helpers do establish: the persisted rows are one generation or
\* the two generations one after the other
OneOrBothGenerations ==
  \A p, q \in Procs :
    BothRefreshed(p, q) =>
      Persisted(p) \in {Written(p), Written(q), Written(p) \o Written(q), Written(q) \o Written(p)}

\* ---- C26 ----
ReturnedNormally(p) == HelperReturned(p) /\ proc[p].result = UNDEFINED

Previous(p) == Keys(hist[p].helper.table, hist[p].helper.before)

\* C26: after a single call of a bulk helper (cast, videos, images, seasons)
\* has returned, the title's rows of that kind are the complete previous set
\* or the complete new set, also when the delete or the insert fails: never
\* an empty set in place of a non-empty one, never old rows with new rows.
C26_AtomicReplacement ==
  \A p \in Procs :
    ReturnedNormally(p) =>
      \/ Persisted(p) = Previous(p)
      \/ hist[p].dbOps > 0 /\ Persisted(p) = Written(p)

\* what the helpers do establish: the new set replaces the previous one when
\* the datastore answers both calls, and nothing changes when the helper
\* returns before its delete
ReplacedWhileStoreAnswers ==
  \A p \in Procs :
    ReturnedNormally(p) /\ StoreHealthy(p) =>
      Persisted(p) = (IF hist[p].dbOps = 0 THEN Previous(p) ELSE Written(p))

\* ---- C27 ----
InFlight(p) == proc[p].pc \notin {"idle", "done"}

Terminates == \A p \in Procs : InFlight(p) ~> Finished(p)

\* while the upstream has answered none of its attempts, the request has
\* made at most n attempts on each endpoint
AttemptsWithin(n) ==
  \A p \in Procs : \A e \in Endpoints : ~hist[p].reached => hist[p].attempts[e] <= n

\* C27: under fairness, with every datastore call and upstream attempt
\* completing or timing out, every getDramaById call eventually returns a
\* response or raises an error, and when the upstream is unreachable no
\* endpoint is attempted more than 3 times for one request.
C27_Termination == Terminates /\ []AttemptsWithin(maxRetries + 1)

\* what the code does establish: every request ends, each fetchFromTMDb call
\* makes at most maxRetries + 1 attempts, and an endpoint is called at most
\* twice for one request
TerminatesWithinTwoCalls ==
  /\ Terminates
  /\ [](\A p \in Procs : /\ proc[p].retryCount <= maxRetries
                         /\ \A e \in Endpoints : hist[p].calls[e] <= 2)
  /\ []AttemptsWithin(2 * (maxRetries + 1))

\* ---- C28 ----
CheckFailed(p) == "gc_needs" \in hist[p].faultSites

\* C28: when the serie_needs_update RPC returns an error or raises,
\* serieNeedsUpdate reports the title as stale: getDramaById(forceRefresh =
\* false) with a cached row goes on to the upstream refresh and never answers
\* 'cache-hit' in that request; when the title-detail fetch of that refresh
\* fails, the cached row is returned with 'cache-after-error'.
C28_StalenessFailsOpen ==
  \A p \in Procs : CheckFailed(p) =>
    /\ proc[p].pc = "rf_tv" \/ hist[p].calls["tv"] >= 1
    /\ hist[p].calls["images"] >= 1 => "rf_tv" \in hist[p].fulfilled
    /\ Finished(p) /\ proc[p].result.kind = "response" /\ proc[p].result.cache # UNDEFINED
         => proc[p].result.cache.status # "cache-hit"
    /\ Finished(p) /\ "rf_tv" \in hist[p].rejected =>
         proc[p].result = cachedResponse(RowNow(p), "cache-after-error", Num(RowNow(p).id))

\* the check failed for a fresh row and the title-detail fetch failed
C28_Witness ==
  \E p \in Procs :
    /\ Finished(p) /\ CheckFailed(p) /\ Fresh(p) /\ hist[p].pre.images > 0
    /\ "rf_tv" \in hist[p].rejected
    /\ proc[p].result.kind = "response"
    /\ proc[p].result.cache.status = "cache-after-error"

\* the check failed for a fresh row and the refresh went through
FailedOpenRefreshed ==
  \E p \in Procs :
    /\ Finished(p) /\ CheckFailed(p) /\ Fresh(p)
    /\ proc[p].result.kind = "response"
    /\ proc[p].result.cache.status = "stale-refreshed"

\* ---- C29 ----
AfterError(p) ==
  /\ Finished(p) /\ proc[p].caller = "getSerieWithCache"
  /\ proc[p].result.kind = "response"
  /\ proc[p].result.cache # UNDEFINED
  /\ proc[p].result.cache.status = "cache-after-error"

Untouched(p) ==
  /\ hist[p].dbWrites = 0
  /\ proc[p].result = cachedResponse(RowNow(p), "cache-after-error", Num(RowNow(p).id))

\* C29: 'cache-after-error' is returned only when the title-detail fetch of
\* the request failed: the request has then written nothing to the store and
\* the row it returns is the row the store holds.
C29_CacheAfterErrorWritesNothing ==
  \A p \in Procs : AfterError(p) => "rf_tv" \in hist[p].rejected /\ Untouched(p)

\* what the code does establish: 'cache-after-error' answers a request that
\* read a cached row, and leaves the store untouched when it was the
\* title-detail fetch that failed
AfterErrorOfFetchWritesNothing ==
  \A p \in Procs : AfterError(p) =>
    /\ hist[p].pre.exists /\ ~proc[p].forceRefresh
    /\ "rf_tv" \in hist[p].rejected => Untouched(p)

\* ---- C30 ----
Categories == {"flatrate", "rent", "buy"}

\* provider n occurs in the list of that category for at least one country
InCategory(results, cat, n) ==
  \E k \in 1..Len(Countries) :
    /\ results[Countries[k]] # NULL
    /\ Occurrences(results[Countries[k]][cat], n) >= 1

\* C30: in the result of getDramaProviders each of the flatrate, rent and buy
\* arrays holds every provider ID that occurs in that category for at least
\* one country, each exactly once; a provider offered under two categories
\* appears in both arrays.
C30_CategoryCompleteness ==
  \A p \in Procs : ProvidersMerged(p) =>
    \A cat \in Categories, n \in ProviderIds :
      InCategory(proc[p].data, cat, n) => Occurrences(proc[p].result[cat], n) = 1

\* what the merge does establish: a provider ID that occurs anywhere appears
\* exactly once over the three arrays together, under a category in which it
\* occurs
ProviderOnceOverall ==
  \A p \in Procs : ProvidersMerged(p) =>
    \A n \in ProviderIds :
      /\ (\E cat \in Categories : InCategory(proc[p].data, cat, n)) =>
           Occurrences(proc[p].result.flatrate \o proc[p].result.rent \o proc[p].result.buy, n) = 1
      /\ \A cat \in Categories :
           Occurrences(proc[p].result[cat], n) >= 1 => InCategory(proc[p].data, cat, n)

====
